---- MODULE Spec2Model ----
(***************************************************************************)
(* Model of the abundance summary code of LESSPayne                        *)
(* (LESSPayne/autosmh/run_summary.py).                                     *)
(*                                                                         *)
(* Numbers.  Abundances (logeps, solar values) are integers in units of    *)
(* 0.01 dex.  Per-species statistics are exact rationals kept as integers  *)
(* with a fixed denominator: a mean, [X/H] or [X/Fe] value v is stored as  *)
(* v * Scale, a variance as v * Scale^3 and a squared standard error as    *)
(* v * Scale^4, where every line count divides Scale.  np.std and the      *)
(* error columns are square roots; the model keeps their squares (sigma2,  *)
(* stderr2, e_stat2, e_tot2), which are exact.  np.nan is the value NaN,   *)
(* which every arithmetic operator below propagates.                       *)
(* Errors of the full-errors line table are integers in units of           *)
(* 0.001 dex.                                                              *)
(*                                                                         *)
(* Tables.  An astropy table is a record [colnames, rows]; a row carries   *)
(* the columns the summary arithmetic reads or writes.  The columns that   *)
(* are copied from the model unchanged (wavelength, expot, loggf, eqw,     *)
(* e_eqw, elem) are listed in colnames but not carried in the rows.        *)
(*                                                                         *)
(* Names the module run_summary.py uses without importing them             *)
(* (OrderedDict, astropy, optimize, species_to_element, rhomat) are taken  *)
(* to be bound to the library objects of those names.                      *)
(***************************************************************************)
EXTENDS Integers, Sequences, FiniteSets, TLC

VARIABLES
    session,        \* session.spectral_models: sequence of model records
    pc,             \* position in the run: which table builder ran last
    tab,            \* line table (get_quick_lines, then vstack of get_quick_limits)
    tab_ul,         \* upper-limit line rows built by get_quick_limits
    summary_tab,    \* summary table
    fulltab,        \* table of get_fullerrors_lines
    minerr,         \* parameter minerr of get_fullerrors_lines
    default_esys,   \* parameter default_esys of get_fullerrors_lines
    rhomat,         \* correlation matrix read by get_fullerrors_lines
    scatter,        \* per-species record of the scatter estimation of get_fullerrors_lines
    run             \* loop state and call log of run_synth_fit

vars == <<session, pc, tab, tab_ul, summary_tab, fulltab, minerr, default_esys, rhomat,
          scatter, run>>

\* ------------------------------------------------------------------ bounds
\* Largest number of spectral models in a session of the quick pipeline.
MaxModels == 3
\* Largest number of spectral models in a session of the full-errors table.
MaxFullModels == 2

\* ------------------------------------------------------------ number model
NaN == -999999

RECURSIVE Factorial(_)
Factorial(n) == IF n <= 1 THEN 1 ELSE n * Factorial(n - 1)

\* Common denominator of the per-species statistics.
Scale == Factorial(IF MaxModels > MaxFullModels THEN MaxModels ELSE MaxFullModels)

IsNaN(x) == x = NaN
Sub(a, b) == IF IsNaN(a) \/ IsNaN(b) THEN NaN ELSE a - b
Add(a, b) == IF IsNaN(a) \/ IsNaN(b) THEN NaN ELSE a + b
Sq(a) == IF IsNaN(a) THEN NaN ELSE a * a

RECURSIVE SumSeq(_)
SumSeq(s) == IF s = <<>> THEN 0 ELSE Add(Head(s), SumSeq(Tail(s)))

\* Variant of MinSeq: the first element instead of the least.
FirstOfSeq(s) == Head(s)

\* np.min: NaN if any element is NaN.
RECURSIVE MinSeq(_)
MinSeq(s) ==
    IF Len(s) = 1 THEN Head(s)
    ELSE LET r == MinSeq(Tail(s)) IN
         IF IsNaN(Head(s)) \/ IsNaN(r) THEN NaN
         ELSE IF Head(s) < r THEN Head(s) ELSE r

\* Rows of a table with a given species, in table order (tab[tab["species"]==species]).
SelectSpecies(rows, species) == SelectSeq(rows, LAMBDA r : r.species = species)

\* np.unique: the distinct values in increasing order.
RECURSIVE SortedSeq(_)
SortedSeq(S) ==
    IF S = {} THEN <<>>
    ELSE LET lo == CHOOSE x \in S : \A y \in S : x <= y
         IN <<lo>> \o SortedSeq(S \ {lo})

UniqueSpecies(rows) == SortedSeq({rows[i].species : i \in 1..Len(rows)})

\* ------------------------------------------------------------ the species
\* Species codes in units of 0.01: 26.0 = Fe I, 26.1 = Fe II (and 12.0 = Mg I,
\* 22.1 = Ti II in the sessions below).
FeI == 2600
FeII == 2610

\* asplund_2009 solar abundance of a species, 0.01 dex.
solar_composition(species) ==
    CASE species \div 100 = 26 -> 750
      [] species \div 100 = 12 -> 760
      [] species \div 100 = 22 -> 495
      [] species \div 100 = 6 -> 843
      [] species \div 100 = 24 -> 564
      [] species \div 100 = 25 -> 543
      [] species \div 100 = 56 -> 218
      [] species \div 100 = 63 -> 52

\* species - int(species) > .01
IsIon(species) == species - (species \div 100) * 100 > 1

\* --------------------------------------------------------- get_quick_lines
QuickLineCols == <<"index", "wavelength", "species", "expot", "loggf",
                   "logeps", "eqw", "e_eqw", "fwhm">>

\* The for loop of get_quick_lines from model i on.  acc carries the rows
\* appended so far and the local variable fwhm (bound or not); raised is set
\* when input_data reads fwhm before any assignment.
RECURSIVE QuickLinesLoop(_, _, _)
QuickLinesLoop(models, i, acc) ==
    IF i > Len(models) \/ acc.raised THEN acc
    ELSE LET model == models[i] IN
         IF ~model.is_acceptable THEN QuickLinesLoop(models, i + 1, acc)
         ELSE IF model.is_upper_limit THEN QuickLinesLoop(models, i + 1, acc)
         ELSE LET ok == model.has_abund
                  logeps == IF ok THEN model.abund ELSE NaN
                  bound == ok \/ acc.fwhm_bound
                  fwhm == IF ok THEN model.fwhm ELSE acc.fwhm
              IN IF ~bound THEN [acc EXCEPT !.raised = TRUE]
                 ELSE QuickLinesLoop(models, i + 1,
                        [rows |-> Append(acc.rows,
                                    [index |-> i - 1, species |-> model.species,
                                     logeps |-> logeps, fwhm |-> fwhm]),
                         fwhm |-> fwhm, fwhm_bound |-> TRUE, raised |-> FALSE])

\* Variant of get_quick_lines: a row for every model, whatever its flags.
get_quick_lines_AllModels(models) ==
    [raised |-> FALSE, colnames |-> QuickLineCols,
     rows |-> [k \in 1..Len(models) |->
                 [index |-> k - 1, species |-> models[k].species,
                  logeps |-> IF models[k].has_abund THEN models[k].abund ELSE NaN,
                  fwhm |-> models[k].fwhm]]]

get_quick_lines(models) ==
    LET r == QuickLinesLoop(models, 1,
                [rows |-> <<>>, fwhm |-> NaN, fwhm_bound |-> FALSE, raised |-> FALSE])
    IN [raised |-> r.raised, colnames |-> QuickLineCols, rows |-> r.rows]

\* ----------------------------------------------------------------- get_feh
\* Variant of get_feh: a missing Fe II row gives NaN instead of feh1.
get_feh_NoFallback(summary_rows) ==
    LET r1 == SelectSpecies(summary_rows, FeI)
        r2 == SelectSpecies(summary_rows, FeII)
        feh1 == IF r1 = <<>> THEN NaN ELSE r1[1].XH
        feh2 == IF r2 = <<>> THEN NaN ELSE r2[1].XH
    IN <<feh1, feh2>>

get_feh(summary_rows) ==
    LET r1 == SelectSpecies(summary_rows, FeI)
        r2 == SelectSpecies(summary_rows, FeII)
        feh1 == IF r1 = <<>> THEN NaN ELSE r1[1].XH
        feh2 == IF r2 = <<>> THEN feh1 ELSE r2[1].XH
    IN <<feh1, feh2>>

\* ------------------------------------------------------- get_quick_summary
SummaryCols == <<"species", "elem", "N", "logeps", "sigma", "stderr", "[X/H]">>

\* Variant of MeanScaled: the sum instead of the mean.
SumScaled(total, N) == IF IsNaN(total) THEN NaN ELSE total * Scale

\* np.mean of N values with sum total, times Scale.
MeanScaled(total, N) == IF IsNaN(total) THEN NaN ELSE (total * Scale) \div N

\* One row of the per-species loop: N, np.mean, np.std, stderr, [X/H].
SpeciesRow(rows, species) ==
    LET ttab == SelectSpecies(rows, species)
        N == Len(ttab)
        total == SumSeq([k \in 1..N |-> ttab[k].logeps])
        logeps == MeanScaled(total, N)
        dev2 == SumSeq([k \in 1..N |-> Sq(Sub(ttab[k].logeps * Scale, logeps))])
        sigma2 == IF IsNaN(logeps) THEN NaN ELSE (dev2 * Scale) \div N
        stderr2 == IF IsNaN(sigma2) THEN NaN ELSE (sigma2 * Scale) \div N
        XH == Sub(logeps, solar_composition(species) * Scale)
    IN [species |-> species, N |-> N, logeps |-> logeps, sigma2 |-> sigma2,
        stderr2 |-> stderr2, XH |-> XH]

\* Variant of XFeOf: the ionized rows are not overwritten.
XFeOf_Neutral(species, XFe1, XFe2) == XFe1

\* The [X/Fe] column of one row: [X/Fe1], overwritten by [X/Fe2] where ixion.
XFeOf(species, XFe1, XFe2) == IF IsIon(species) THEN XFe2 ELSE XFe1

WithXFe(row, feh1, feh2) ==
    LET XFe1 == Sub(row.XH, feh1)
        XFe2 == Sub(row.XH, feh2)
    IN [species |-> row.species, N |-> row.N, logeps |-> row.logeps,
        sigma2 |-> row.sigma2, stderr2 |-> row.stderr2, XH |-> row.XH,
        XFe1 |-> XFe1, XFe2 |-> XFe2, XFe |-> XFeOf(row.species, XFe1, XFe2)]

\* Variant of EmptySummaryCols: the else branch adds no column.
EmptySummaryCols_NoElse == SummaryCols

\* Columns of the summary of an empty line table (the else branch).
EmptySummaryCols == SummaryCols \o <<"[X/Fe]", "[X/Fe1]", "[X/Fe2]">>

get_quick_summary(t) ==
    LET unique_species == UniqueSpecies(t.rows)
        base == [k \in 1..Len(unique_species) |-> SpeciesRow(t.rows, unique_species[k])]
        feh == get_feh(base)
    IN IF Len(base) > 0
       THEN [colnames |-> SummaryCols \o <<"[X/Fe1]", "[X/Fe2]", "[X/Fe]">>,
             rows |-> [k \in 1..Len(base) |-> WithXFe(base[k], feh[1], feh[2])]]
       ELSE [colnames |-> EmptySummaryCols, rows |-> <<>>]

\* -------------------------------------------------------- get_quick_limits
\* The first for loop of get_quick_limits: one row per accepted upper-limit
\* model; a failed read sets logeps and fwhm to NaN.
RECURSIVE LimitLinesLoop(_, _, _)
LimitLinesLoop(models, i, rows) ==
    IF i > Len(models) THEN rows
    ELSE LET model == models[i] IN
         IF ~model.is_upper_limit THEN LimitLinesLoop(models, i + 1, rows)
         ELSE IF ~model.is_acceptable THEN LimitLinesLoop(models, i + 1, rows)
         ELSE LimitLinesLoop(models, i + 1,
                Append(rows,
                    [index |-> i - 1, species |-> model.species,
                     logeps |-> IF model.has_abund THEN model.abund ELSE NaN,
                     fwhm |-> IF model.has_abund THEN model.fwhm ELSE NaN]))

\* One upper-limit summary row (body of the second for loop).
LimitRow(ul_rows, species, feh1, feh2) ==
    LET ttab_ul == SelectSpecies(ul_rows, species)
        N == Len(ttab_ul)
        limit_min == MinSeq([k \in 1..N |-> ttab_ul[k].logeps])
        limit_logeps == IF IsNaN(limit_min) THEN NaN ELSE limit_min * Scale
        limit_XH == Sub(limit_logeps, solar_composition(species) * Scale)
        limit_XFe1 == Sub(limit_XH, feh1)
        limit_XFe2 == Sub(limit_XH, feh2)
        limit_XFe == IF IsIon(species) THEN limit_XFe2 ELSE limit_XFe1
    IN [species |-> species, N |-> N, logeps |-> limit_logeps, sigma2 |-> NaN,
        stderr2 |-> NaN, XH |-> limit_XH, XFe1 |-> limit_XFe1,
        XFe2 |-> limit_XFe2, XFe |-> limit_XFe]

\* Variant of SkipLimitSpecies: no species is skipped.
SkipLimitSpecies_Never(summary_rows, species) == FALSE

\* if species in summary_tab["species"]: continue
SkipLimitSpecies(summary_rows, species) ==
    \E k \in 1..Len(summary_rows) : summary_rows[k].species = species

LimitSummaryRows(ul_rows, summary_rows, feh1, feh2) ==
    LET ul_species == UniqueSpecies(ul_rows)
        kept == SelectSeq(ul_species, LAMBDA sp : ~SkipLimitSpecies(summary_rows, sp))
    IN [k \in 1..Len(kept) |-> LimitRow(ul_rows, kept[k], feh1, feh2)]

\* get_quick_limits(session, tab, summary_tab): raised when one of its two
\* column-count assertions fails.
get_quick_limits(models, t, st) ==
    LET feh == get_feh(st.rows)
        ul_rows == LimitLinesLoop(models, 1, <<>>)
        st_ul == LimitSummaryRows(ul_rows, st.rows, feh[1], feh[2])
        cols == SummaryCols \o <<"[X/Fe1]", "[X/Fe2]", "[X/Fe]">>
        ok == Len(QuickLineCols) = Len(t.colnames) /\ Len(cols) = Len(st.colnames)
    IN [raised |-> ~ok,
        tab_ul |-> [colnames |-> QuickLineCols, rows |-> ul_rows],
        tab |-> [colnames |-> t.colnames, rows |-> t.rows \o ul_rows],
        summary_tab |->
            IF Len(st_ul) > 0
            THEN IF Len(st.rows) > 0
                 THEN [colnames |-> st.colnames, rows |-> st.rows \o st_ul]
                 ELSE [colnames |-> cols, rows |-> st_ul]
            ELSE st]

\* ------------------------------------------------------------ the sessions
\* Line width of the model at position i (0.01 A): distinct per model.
FwhmAt(i) == 10 + i

\* The models of a quick-pipeline session: every combination of the two
\* flags for a line with a fitted abundance or without one (has_abund
\* FALSE: model.abundances[0] raises), and two rejected lines.
QuickModels ==
    [is_acceptable : {TRUE}, is_upper_limit : BOOLEAN, has_abund : {TRUE},
     sa : {<<2600, 740>>, <<2600, 750>>, <<2610, 755>>, <<1200, 780>>, <<2210, 500>>}]
    \cup [is_acceptable : {TRUE}, is_upper_limit : BOOLEAN, has_abund : {FALSE},
          sa : {<<1200, 780>>}]
    \cup [is_acceptable : {FALSE}, is_upper_limit : {FALSE}, has_abund : {TRUE},
          sa : {<<2600, 740>>}]
    \cup [is_acceptable : {FALSE}, is_upper_limit : {TRUE}, has_abund : {FALSE},
          sa : {<<2210, 500>>}]

MkModel(m, i) ==
    [is_acceptable |-> m.is_acceptable, is_upper_limit |-> m.is_upper_limit,
     has_abund |-> m.has_abund, species |-> m.sa[1], abund |-> m.sa[2],
     fwhm |-> FwhmAt(i)]

NoTable == [colnames |-> <<>>, rows |-> <<>>]

\* State of run_synth_fit before the function is entered.
NoRun == [phase |-> "idle"]

Init ==
    /\ \E n \in 0..MaxModels : \E f \in [1..n -> QuickModels] :
          session = [i \in 1..n |-> MkModel(f[i], i)]
    /\ pc = "start"
    /\ tab = NoTable
    /\ tab_ul = NoTable
    /\ summary_tab = NoTable
    /\ fulltab = NoTable
    /\ minerr = 0
    /\ default_esys = 0
    /\ rhomat = <<>>
    /\ scatter = <<>>
    /\ run = NoRun

\* linetab = get_quick_lines(session)
GetQuickLines ==
    /\ pc = "start"
    /\ LET r == get_quick_lines(session) IN
         IF r.raised
         THEN /\ pc' = "lines_raised"
              /\ UNCHANGED tab
         ELSE /\ pc' = "lines"
              /\ tab' = [colnames |-> r.colnames, rows |-> r.rows]
    /\ UNCHANGED <<session, tab_ul, summary_tab, fulltab, minerr, default_esys, rhomat, scatter, run>>

\* Variant of GetQuickSummary: the rows of the line table are consumed.
GetQuickSummary_ConsumesTable ==
    /\ pc = "lines"
    /\ summary_tab' = get_quick_summary(tab)
    /\ tab' = [tab EXCEPT !.rows = <<>>]
    /\ pc' = "summary"
    /\ UNCHANGED <<session, tab_ul, fulltab, minerr, default_esys, rhomat, scatter, run>>

\* summarytab = get_quick_summary(linetab)
GetQuickSummary ==
    /\ pc = "lines"
    /\ summary_tab' = get_quick_summary(tab)
    /\ pc' = "summary"
    /\ UNCHANGED <<session, tab, tab_ul, fulltab, minerr, default_esys, rhomat, scatter, run>>

\* linetab, summarytab = get_quick_limits(session, linetab, summarytab)
GetQuickLimits ==
    /\ pc = "summary"
    /\ LET r == get_quick_limits(session, tab, summary_tab) IN
         IF r.raised
         THEN /\ pc' = "limits_raised"
              /\ UNCHANGED <<tab, tab_ul, summary_tab>>
         ELSE /\ pc' = "limits"
              /\ tab' = r.tab
              /\ tab_ul' = r.tab_ul
              /\ summary_tab' = r.summary_tab
    /\ UNCHANGED <<session, fulltab, minerr, default_esys, rhomat, scatter, run>>

Next == GetQuickLines \/ GetQuickSummary \/ GetQuickLimits

Spec == Init /\ [][Next]_vars

\* ==================================================== get_fullerrors_lines
FullLineCols == <<"index", "wavelength", "species", "expot", "loggf",
                  "logeps", "e_stat", "eqw", "e_eqw", "fwhm",
                  "e_Teff", "e_logg", "e_vt", "e_MH", "e_sys",
                  "e_tot", "weight">>

\* max(staterr, cov[0,0]**0.5) of Python: the first argument unless the
\* second compares greater, so a NaN first argument stays.
PyMax(a, b) == IF IsNaN(a) THEN NaN ELSE IF b > a THEN b ELSE a

\* staterr after the synthesis branch; coverr is cov[0,0]**0.5, NaN when
\* that is not finite.
RaisedStaterr(model) ==
    IF model.kind = "synthesis" /\ ~IsNaN(model.coverr)
    THEN PyMax(model.staterr, model.coverr)
    ELSE model.staterr

\* Variant of StatFloorSq: the floor is not applied.
StatFloorSq_NoFloor(staterr, floor) == Sq(staterr)

\* staterr = np.sqrt(staterr**2 + minerr**2), squared.
StatFloorSq(staterr, floor) == Add(Sq(staterr), Sq(floor))

\* e_all.T.dot(rhomat.dot(e_all))
QuadForm(e, R) ==
    SumSeq([a \in 1..4 |-> SumSeq([b \in 1..4 |-> e[a] * R[a][b] * e[b]])])

\* Whether the try block of one line runs to its end: every metadata read
\* succeeds and the NaN assertion of a synthesis model holds.
TryOk(model) ==
    /\ model.has_abund
    /\ model.has_errors
    /\ model.kind = "synthesis" => ~IsNaN(RaisedStaterr(model))

\* The for loop of get_fullerrors_lines from model i on; as in
\* get_quick_lines the local fwhm is assigned only at the end of the try.
RECURSIVE FullLinesLoop(_, _, _, _, _)
FullLinesLoop(models, i, acc, floor, R) ==
    IF i > Len(models) \/ acc.raised THEN acc
    ELSE LET model == models[i] IN
         IF ~model.is_acceptable THEN FullLinesLoop(models, i + 1, acc, floor, R)
         ELSE IF model.is_upper_limit THEN FullLinesLoop(models, i + 1, acc, floor, R)
         ELSE LET ok == TryOk(model)
                  bound == ok \/ acc.fwhm_bound
                  fwhm == IF ok THEN model.fwhm ELSE acc.fwhm
                  row == IF ok
                         THEN [index |-> i - 1, species |-> model.species,
                               logeps |-> model.abund,
                               e_stat2 |-> StatFloorSq(RaisedStaterr(model), floor),
                               fwhm |-> fwhm,
                               e_Teff |-> model.sperr[1], e_logg |-> model.sperr[2],
                               e_vt |-> model.sperr[3], e_MH |-> model.sperr[4],
                               e_sys2 |-> QuadForm(model.sperr, R)]
                         ELSE [index |-> i - 1, species |-> model.species,
                               logeps |-> NaN, e_stat2 |-> NaN, fwhm |-> fwhm,
                               e_Teff |-> NaN, e_logg |-> NaN, e_vt |-> NaN,
                               e_MH |-> NaN, e_sys2 |-> NaN]
              IN IF ~bound THEN [acc EXCEPT !.raised = TRUE]
                 ELSE FullLinesLoop(models, i + 1,
                        [rows |-> Append(acc.rows, row), fwhm |-> fwhm,
                         fwhm_bound |-> TRUE, raised |-> FALSE], floor, R)

\* Variant of SysColumnSq: the e_sys column keeps the syserr of each line,
\* without tab["e_sys"] = default_esys and tab["e_sys"][ix] = s.
SysColumnSq_Syserr(row, esys) == row.e_sys2

\* The e_sys column squared: tab["e_sys"] = default_esys, or
\* tab["e_sys"][ix] = s when estimate_systematic_error is True.
SysColumnSq(row, esys) == Sq(esys)

\* Variant of TotalErrSq: toterr = np.sqrt(staterr**2 + syserr**2).
TotalErrSq_StatSys(e_stat2, e_sys2, e_Teff, e_logg, e_vt, e_MH) ==
    IF IsNaN(e_Teff) \/ IsNaN(e_logg) \/ IsNaN(e_vt) \/ IsNaN(e_MH) THEN NaN
    ELSE Add(e_stat2, e_sys2)

\* etot2: the sum over the columns e_stat, e_sys, e_Teff, e_logg, e_vt, e_MH
\* of the column squared.
TotalErrSq(e_stat2, e_sys2, e_Teff, e_logg, e_vt, e_MH) ==
    Add(Add(Add(Add(Add(Add(0, e_stat2), e_sys2), Sq(e_Teff)), Sq(e_logg)),
            Sq(e_vt)), Sq(e_MH))

\* Variant of WeightOf: e_tot**2 instead of e_tot**-2.
WeightOf_Square(e_tot2) ==
    IF IsNaN(e_tot2) THEN [kind |-> "nan", num |-> 0, den |-> 1]
    ELSE [kind |-> "finite", num |-> e_tot2, den |-> 1]

\* tab["e_tot"]**-2 as a fraction of e_tot squared: infinite at 0, NaN at NaN.
WeightOf(e_tot2) ==
    IF IsNaN(e_tot2) THEN [kind |-> "nan", num |-> 0, den |-> 1]
    ELSE IF e_tot2 = 0 THEN [kind |-> "inf", num |-> 1, den |-> 0]
    ELSE [kind |-> "finite", num |-> 1, den |-> e_tot2]

FinishFullRow(row, esys) ==
    LET e_sys2 == SysColumnSq(row, esys)
        e_tot2 == TotalErrSq(row.e_stat2, e_sys2, row.e_Teff, row.e_logg,
                             row.e_vt, row.e_MH)
    IN [index |-> row.index, species |-> row.species, logeps |-> row.logeps,
        e_stat2 |-> row.e_stat2, fwhm |-> row.fwhm, e_Teff |-> row.e_Teff,
        e_logg |-> row.e_logg, e_vt |-> row.e_vt, e_MH |-> row.e_MH,
        e_sys2 |-> e_sys2, e_tot2 |-> e_tot2, weight |-> WeightOf(e_tot2)]

get_fullerrors_lines(models, floor, esys, R) ==
    LET r == FullLinesLoop(models, 1,
                [rows |-> <<>>, fwhm |-> NaN, fwhm_bound |-> FALSE, raised |-> FALSE],
                floor, R)
    IN [raised |-> r.raised, colnames |-> FullLineCols,
        rows |-> [k \in 1..Len(r.rows) |-> FinishFullRow(r.rows[k], esys)]]

\* Stellar-parameter systematic shifts (e_Teff, e_logg, e_vt, e_MH), 0.001 dex.
SperrValues == {<<0, 0, 0, 0>>, <<30, -40, 10, 0>>}

\* The models of a full-errors session.
FullModels ==
    [is_acceptable : {TRUE}, is_upper_limit : {FALSE}, kind : {"profile"},
     has_abund : {TRUE}, has_errors : {TRUE}, staterr : {0, 50}, coverr : {NaN},
     sperr : SperrValues]
    \cup [is_acceptable : {TRUE}, is_upper_limit : {FALSE}, kind : {"synthesis"},
          has_abund : {TRUE}, has_errors : {TRUE},
          sc : {<<0, 30>>, <<50, 30>>, <<50, NaN>>}, sperr : SperrValues]
    \cup [is_acceptable : {TRUE}, is_upper_limit : {FALSE}, kind : {"synthesis"},
          has_abund : {TRUE}, has_errors : {TRUE}, sc : {<<NaN, 30>>},
          sperr : {<<0, 0, 0, 0>>}]
    \cup [is_acceptable : {TRUE}, is_upper_limit : {FALSE}, kind : {"profile"},
          has_abund : {TRUE}, has_errors : {FALSE}, staterr : {0}, coverr : {NaN},
          sperr : {<<0, 0, 0, 0>>}]
    \cup [is_acceptable : {TRUE}, is_upper_limit : {TRUE}, kind : {"synthesis"},
          has_abund : {TRUE}, has_errors : {FALSE}, sc : {<<0, NaN>>},
          sperr : {<<0, 0, 0, 0>>}]
    \cup [is_acceptable : {FALSE}, is_upper_limit : {FALSE}, kind : {"profile"},
          has_abund : {TRUE}, has_errors : {TRUE}, staterr : {50}, coverr : {NaN},
          sperr : {<<30, -40, 10, 0>>}]

MkFullModel(m, i) ==
    [is_acceptable |-> m.is_acceptable, is_upper_limit |-> m.is_upper_limit,
     kind |-> m.kind, has_abund |-> m.has_abund, has_errors |-> m.has_errors,
     species |-> IF m.kind = "profile" THEN 2600 ELSE 1200,
     abund |-> IF m.kind = "profile" THEN 740 ELSE 780,
     staterr |-> IF m.kind = "profile" THEN m.staterr ELSE m.sc[1],
     coverr |-> IF m.kind = "profile" THEN m.coverr ELSE m.sc[2],
     sperr |-> m.sperr, fwhm |-> FwhmAt(i)]

\* Correlation matrices over (Teff, logg, vt, MH), entries -1, 0 or 1: the
\* identity, and Teff fully correlated with logg.
RhoValues ==
    {<< <<1, 0, 0, 0>>, <<0, 1, 0, 0>>, <<0, 0, 1, 0>>, <<0, 0, 0, 1>> >>,
     << <<1, 1, 0, 0>>, <<1, 1, 0, 0>>, <<0, 0, 1, 0>>, <<0, 0, 0, 1>> >>}

InitFull ==
    /\ \E n \in 0..MaxFullModels : \E f \in [1..n -> FullModels] :
          session = [i \in 1..n |-> MkFullModel(f[i], i)]
    /\ pc = "start"
    /\ tab = NoTable
    /\ tab_ul = NoTable
    /\ summary_tab = NoTable
    /\ fulltab = NoTable
    /\ minerr \in {0, 1}
    /\ default_esys \in {0, 100}
    /\ rhomat \in RhoValues
    /\ scatter = <<>>
    /\ run = NoRun

\* tab = get_fullerrors_lines(session, minerr, default_esys)
GetFullerrorsLines ==
    /\ pc = "start"
    /\ LET r == get_fullerrors_lines(session, minerr, default_esys, rhomat) IN
         IF r.raised
         THEN /\ pc' = "full_raised"
              /\ UNCHANGED fulltab
         ELSE /\ pc' = "full"
              /\ fulltab' = [colnames |-> r.colnames, rows |-> r.rows]
    /\ UNCHANGED <<session, tab, tab_ul, summary_tab, minerr, default_esys, rhomat, scatter, run>>

NextFull == GetFullerrorsLines

SpecFull == InitFull /\ [][NextFull]_vars

\* ======================================================================
\* get_fullerrors_lines with estimate_systematic_error=True
\* ======================================================================
\* The residual func(s) of the scatter estimator is a sum of fractions whose
\* denominators reach (9 * 10^6)^2 per line in units of 0.001 dex.  Its sign
\* and the comparison func(0) < func(s_max) are computed exactly on natural
\* numbers kept as base-100 digit sequences, least significant digit first
\* (the empty sequence is 0).
RECURSIVE BigFromInt(_)
BigFromInt(n) == IF n = 0 THEN <<>> ELSE <<n % 100>> \o BigFromInt(n \div 100)

RECURSIVE BigTimesCarry(_, _, _)
BigTimesCarry(b, k, carry) ==
    IF b = <<>> THEN BigFromInt(carry)
    ELSE LET v == Head(b) * k + carry
         IN <<v % 100>> \o BigTimesCarry(Tail(b), k, v \div 100)

\* b * k for a natural k below 2 * 10^7.
BigTimes(b, k) == IF k = 0 THEN <<>> ELSE BigTimesCarry(b, k, 0)

RECURSIVE BigTimesAll(_, _)
BigTimesAll(b, factors) ==
    IF factors = <<>> THEN b
    ELSE BigTimesAll(BigTimes(b, Head(factors)), Tail(factors))

RECURSIVE BigAddCarry(_, _, _)
BigAddCarry(a, b, carry) ==
    IF a = <<>> /\ b = <<>> THEN BigFromInt(carry)
    ELSE LET x == IF a = <<>> THEN 0 ELSE Head(a)
             y == IF b = <<>> THEN 0 ELSE Head(b)
             v == x + y + carry
         IN <<v % 100>> \o BigAddCarry(IF a = <<>> THEN a ELSE Tail(a),
                                       IF b = <<>> THEN b ELSE Tail(b), v \div 100)

BigAdd(a, b) == BigAddCarry(a, b, 0)

RECURSIVE BigLessFrom(_, _, _)
BigLessFrom(a, b, k) ==
    IF k = 0 THEN FALSE
    ELSE IF a[k] # b[k] THEN a[k] < b[k]
    ELSE BigLessFrom(a, b, k - 1)

BigLess(a, b) ==
    IF Len(a) # Len(b) THEN Len(a) < Len(b) ELSE BigLessFrom(a, b, Len(a))

\* s_max = 3. in units of 0.001 dex.
s_max == 3000
\* for i in range(100)
MaxScatterIter == 100
\* brentq(..., xtol=.001) in units of 0.001 dex.
xtol == 1
\* np.abs(s_old - s) < 0.01 in units of 0.001 dex.
ScatterTol == 10

\* The factors of the product of (ex_j**2 + s**2)**2 over the lines j # i
\* (over all lines when i = 0).
RECURSIVE DenFactors(_, _, _, _)
DenFactors(ex2, s, i, j) ==
    IF j > Len(ex2) THEN <<>>
    ELSE (IF j = i THEN <<>> ELSE <<ex2[j] + s * s, ex2[j] + s * s>>)
         \o DenFactors(ex2, s, i, j + 1)

\* func(s) = np.sum(dx**2 / (ex**2 + s**2)**2) - np.sum(1/(ex**2 + s**2))
\* with w = 1, xhat = mean(logeps), dx = logeps - xhat, for the lines of one
\* species (x: logeps in 0.01 dex, ex2: e_stat squared in 0.001 dex).  With
\* N = len(t), line i contributes
\*     (dxN_i^2 - N^2 (ex_i^2 + s^2)) / (N^2 (ex_i^2 + s^2)^2),
\* dxN_i = N * dx_i.  The value is (pos - neg) / (N^2 * product of den), nan
\* when an input is NaN or a denominator is 0 (inf - inf and 0/0).
RECURSIVE FuncTerms(_, _, _, _, _)
FuncTerms(x, ex2, s, i, positive) ==
    IF i > Len(x) THEN <<>>
    ELSE LET N == Len(x)
             dxN == 10 * (N * x[i] - SumSeq(x))
             n == dxN * dxN - N * N * (ex2[i] + s * s)
             rest == FuncTerms(x, ex2, s, i + 1, positive)
         IN IF positive /\ n > 0
            THEN BigAdd(BigTimesAll(BigFromInt(n), DenFactors(ex2, s, i, 1)), rest)
            ELSE IF ~positive /\ n < 0
            THEN BigAdd(BigTimesAll(BigFromInt(-n), DenFactors(ex2, s, i, 1)), rest)
            ELSE rest

func(x, ex2, s) ==
    IF \E i \in 1..Len(x) : IsNaN(x[i]) \/ IsNaN(ex2[i]) \/ ex2[i] + s * s = 0
    THEN [nan |-> TRUE, pos |-> <<>>, neg |-> <<>>, den |-> <<>>]
    ELSE [nan |-> FALSE, pos |-> FuncTerms(x, ex2, s, 1, TRUE),
          neg |-> FuncTerms(x, ex2, s, 1, FALSE), den |-> DenFactors(ex2, s, 0, 1)]

\* The sign of a value of func: 1, 0 or -1.
FuncSign(u) == IF BigLess(u.neg, u.pos) THEN 1 ELSE IF BigLess(u.pos, u.neg) THEN -1 ELSE 0

\* u < v for two values of func; a comparison with nan is False.
FuncLess(u, v) ==
    /\ ~u.nan
    /\ ~v.nan
    /\ BigLess(BigAdd(BigTimesAll(u.pos, v.den), BigTimesAll(v.neg, u.den)),
               BigAdd(BigTimesAll(v.pos, u.den), BigTimesAll(u.neg, v.den)))

\* The bracketing iteration of brentq on [lo, hi], func of opposite signs at
\* the two ends (siglo at lo): the bracket is halved until it is no wider than
\* xtol, and an exact zero met on the way is returned.
RECURSIVE Bisect(_, _, _, _, _)
Bisect(x, ex2, lo, hi, siglo) ==
    IF hi - lo <= xtol THEN lo
    ELSE LET mid == (lo + hi) \div 2
             sg == FuncSign(func(x, ex2, mid))
         IN IF sg = 0 THEN mid
            ELSE IF sg = siglo THEN Bisect(x, ex2, mid, hi, siglo)
            ELSE Bisect(x, ex2, lo, mid, siglo)

\* optimize.brentq(func, 0, s_max, xtol=.001), f0 and fm being func(0) and
\* func(s_max).  ValueError when func has the same sign at both ends.  A NaN
\* value of func is a ValueError in the scipy releases that wrap the function
\* in a NaN check (nanraises); the releases without the check compare NaN as
\* False throughout and halve the bracket towards 0, returning a point below
\* xtol.
BracketedRoot(x, ex2, f0, fm, nanraises) ==
    IF f0.nan \/ fm.nan THEN [raised |-> nanraises, s |-> 0]
    ELSE IF FuncSign(f0) = 0 THEN [raised |-> FALSE, s |-> 0]
    ELSE IF FuncSign(fm) = 0 THEN [raised |-> FALSE, s |-> s_max]
    ELSE IF FuncSign(f0) = FuncSign(fm) THEN [raised |-> TRUE, s |-> 0]
    ELSE [raised |-> FALSE, s |-> Bisect(x, ex2, 0, s_max, FuncSign(f0))]

brentq(x, ex2, nanraises) ==
    BracketedRoot(x, ex2, func(x, ex2, 0), func(x, ex2, s_max), nanraises)

\* if func(0) < func(s_max)
ScatterGuard(x, ex2) == FuncLess(func(x, ex2, 0), func(x, ex2, s_max))

\* The loop "for i in range(100)" over one species from iteration i (1-based)
\* on, with the current s_old.  outcome: "guard" (s = 0; break), "converged"
\* (break after brentq), "raised" (the ValueError of brentq is re-raised) or
\* "exhausted" (the else branch of the for loop).
RECURSIVE ScatterLoop(_, _, _, _, _, _)
\* The rest of iteration i after the call of brentq, whose outcome is b.
AfterBrentq(x, ex2, nanraises, i, s, s_old, b) ==
    IF b.raised THEN [outcome |-> "raised", s |-> s, iters |-> i]
    ELSE IF (IF s_old >= b.s THEN s_old - b.s ELSE b.s - s_old) < ScatterTol
    THEN [outcome |-> "converged", s |-> b.s, iters |-> i]
    ELSE ScatterLoop(x, ex2, nanraises, i + 1, b.s, b.s)

ScatterLoop(x, ex2, nanraises, i, s, s_old) ==
    IF i > MaxScatterIter THEN [outcome |-> "exhausted", s |-> s, iters |-> MaxScatterIter]
    ELSE IF ScatterGuard(x, ex2) THEN [outcome |-> "guard", s |-> 0, iters |-> i]
    ELSE AfterBrentq(x, ex2, nanraises, i, s, s_old, brentq(x, ex2, nanraises))

\* The body of "for species in np.unique(tab["species"])" for one species:
\* t = tab[ix], s = s_old = 0., ex = t["e_stat"], then the loop.
ScatterOfSpecies(rows, species, nanraises) ==
    LET t == SelectSpecies(rows, species)
        r == ScatterLoop([k \in 1..Len(t) |-> t[k].logeps],
                         [k \in 1..Len(t) |-> t[k].e_stat2], nanraises, 1, 0, 0)
    IN [species |-> species, N |-> Len(t), outcome |-> r.outcome, s |-> r.s,
        iters |-> r.iters, warned |-> r.outcome = "exhausted"]

\* The species loop from the k-th unique species on; it ends at the first
\* species whose estimation raises.
RECURSIVE ScatterSpeciesLoop(_, _, _, _, _)
ScatterSpeciesLoop(rows, sp, k, acc, nanraises) ==
    IF k > Len(sp) THEN acc
    ELSE LET e == ScatterOfSpecies(rows, sp[k], nanraises) IN
         IF e.outcome = "raised" THEN Append(acc, e)
         ELSE ScatterSpeciesLoop(rows, sp, k + 1, Append(acc, e), nanraises)

\* tab["e_sys"][ix] = s: the s recorded for the species of a row.
ScatterOf(est, species) ==
    (CHOOSE k \in 1..Len(est) : est[k].species = species) 

\* The table after the species loop: est holds the estimates of the species
\* in order, the last of them raised if the loop was left by an exception;
\* every row gets the s of its species as e_sys.
EstimatedTable(r, est) ==
    LET raised == r.raised \/ \E k \in 1..Len(est) : est[k].outcome = "raised"
    IN [raised |-> raised, scatter_raised |-> ~r.raised /\ raised,
        colnames |-> FullLineCols, scatter |-> est,
        rows |-> IF raised THEN <<>>
                 ELSE [k \in 1..Len(r.rows) |->
                         FinishFullRow(r.rows[k], est[ScatterOf(est, r.rows[k].species)].s)]]

get_fullerrors_lines_estimate(models, floor, esys, R, nanraises) ==
    LET r == FullLinesLoop(models, 1,
                [rows |-> <<>>, fwhm |-> NaN, fwhm_bound |-> FALSE, raised |-> FALSE],
                floor, R)
    IN EstimatedTable(r,
          IF r.raised THEN <<>>
          ELSE ScatterSpeciesLoop(r.rows, UniqueSpecies(r.rows), 1, <<>>, nanraises))

\* Largest number of spectral models in a session of the scatter estimation.
MaxScatterModels == 2

\* The models of a session of the scatter estimation: measured lines of two
\* species with abundances 7.40, 7.60 or 7.80 and a raw statistical error of
\* 0 or 0.1 dex, and a line without the systematic error metadata.
ScatterModels ==
    [has_errors : {TRUE}, species : {1200, 2600}, abund : {740, 760, 780},
     staterr : {0, 100}]
    \cup [has_errors : {FALSE}, species : {2600}, abund : {740}, staterr : {100}]

MkScatterModel(m, i) ==
    [is_acceptable |-> TRUE, is_upper_limit |-> FALSE, kind |-> "profile",
     has_abund |-> TRUE, has_errors |-> m.has_errors, species |-> m.species,
     abund |-> m.abund, staterr |-> m.staterr, coverr |-> NaN,
     sperr |-> <<30, -40, 10, 0>>, fwhm |-> FwhmAt(i)]

InitScatter ==
    /\ \E n \in 0..MaxScatterModels : \E f \in [1..n -> ScatterModels] :
          session = [i \in 1..n |-> MkScatterModel(f[i], i)]
    /\ pc = "start"
    /\ tab = NoTable
    /\ tab_ul = NoTable
    /\ summary_tab = NoTable
    /\ fulltab = NoTable
    /\ minerr \in {0, 1}
    /\ default_esys = 100
    /\ rhomat = << <<1, 0, 0, 0>>, <<0, 1, 0, 0>>, <<0, 0, 1, 0>>, <<0, 0, 0, 1>> >>
    /\ scatter = <<>>
    /\ run = NoRun

\* tab = get_fullerrors_lines(session, minerr, default_esys,
\*                            estimate_systematic_error=True)
GetFullerrorsLinesEstimate ==
    /\ pc = "start"
    /\ \E nanraises \in BOOLEAN :
         \E r \in {get_fullerrors_lines_estimate(session, minerr, default_esys,
                                                 rhomat, nanraises)} :
           /\ scatter' = r.scatter
           /\ IF r.raised
              THEN /\ pc' = IF r.scatter_raised THEN "scatter_raised" ELSE "full_raised"
                   /\ UNCHANGED fulltab
              ELSE /\ pc' = "full_estimated"
                   /\ fulltab' = [colnames |-> r.colnames, rows |-> r.rows]
    /\ UNCHANGED <<session, tab, tab_ul, summary_tab, minerr, default_esys, rhomat, run>>

NextScatter == GetFullerrorsLinesEstimate

SpecScatter == InitScatter /\ [][NextScatter]_vars

\* get_fullerrors_lines called with either value of estimate_systematic_error
\* on the sessions of the scatter estimation.
NextEstimateOrNot == GetFullerrorsLines \/ GetFullerrorsLinesEstimate

SpecEstimateOrNot == InitScatter /\ [][NextEstimateOrNot]_vars

\* ======================================================================
\* run_synth_fit (LESSPayne/autosmh/run_synth_fit.py)
\* ======================================================================
\* Elements are named by their symbols; a prior (an entry of rt_abundances)
\* is kept in units of 0.001 dex times Scale, so that the mean over the
\* accepted lines of an element is exact.  The fitting engine (iterfit,
\* check_line_detection, find_upper_limit) and the aggregator
\* (session.summarize_spectral_models) are not part of run_synth_fit.py: a
\* fit and an upper-limit search either raise or return, a returning fit
\* stores the model's fitted abundance and leaves the flags alone, a
\* returning upper-limit search leaves the model accepted as an upper limit,
\* and the aggregate of an element is the mean over the accepted lines of
\* that element that are not upper limits.

\* Largest number of spectral models in a session of run_synth_fit.
MaxFitModels == 2

\* Values of the configuration entry num_iter_all.
NumIterValues == {1, 2}

ElemSpecies(elem) ==
    CASE elem = "C" -> 600
      [] elem = "Mg" -> 1200
      [] elem = "Ti" -> 2200
      [] elem = "Cr" -> 2400
      [] elem = "Mn" -> 2500
      [] elem = "Fe" -> 2600
      [] elem = "Ba" -> 5600
      [] elem = "Eu" -> 6300

\* solar_composition(elem) in 0.001 dex.
SolarOf(elem) == 10 * solar_composition(ElemSpecies(elem))

\* summary_dict = session.summarize_spectral_models(organize_by_element=True)
Contributing(models, elem) ==
    {j \in 1..Len(models) : /\ models[j].elem = elem
                            /\ models[j].is_acceptable
                            /\ ~models[j].is_upper_limit
                            /\ models[j].has_abund}

\* elem in summary_dict
SummaryHas(models, elem) == Contributing(models, elem) # {}

RECURSIVE SumOver(_, _)
SumOver(models, J) ==
    IF J = {} THEN 0
    ELSE LET j == CHOOSE x \in J : TRUE
         IN Add(models[j].abund, SumOver(models, J \ {j}))

\* summary_dict[elem][1]: the mean abundance, 0.001 dex times Scale.
SummaryLogeps(models, elem) ==
    LET J == Contributing(models, elem)
        m == MeanScaled(SumOver(models, J), Cardinality(J))
    IN IF IsNaN(m) THEN NaN ELSE 10 * m

\* summary_dict[elem][4]: [X/H], 0.001 dex times Scale.
SummaryXH(models, elem) == Sub(SummaryLogeps(models, elem), SolarOf(elem) * Scale)

\* The "Fill in fixed abundances" block of both prior updates: with a
\* fitted result, the stored abundance of the model's element is overwritten
\* by the aggregate, or by NaN when the element has none.
FillFitted(models, model) ==
    IF ~model.has_abund THEN model
    ELSE [model EXCEPT !.filled = TRUE,
                       !.fill = IF SummaryHas(models, model.elem)
                                THEN SummaryLogeps(models, model.elem) ELSE NaN]

\* Variant of update_abundance_table: summary_dict is taken from the models
\* as they were when the pass began.
update_abundance_table_Frozen(models, model, MH) ==
    LET frozen == IF run.i = 1 THEN models ELSE run.snap IN
    FillFitted(frozen,
        [model EXCEPT !.rt = [elem \in DOMAIN model.rt |->
            IF SummaryHas(frozen, elem) THEN SummaryLogeps(frozen, elem)
            ELSE (SolarOf(elem) + MH) * Scale]])

\* update_abundance_table(session, model)
update_abundance_table(models, model, MH) ==
    FillFitted(models,
        [model EXCEPT !.rt = [elem \in DOMAIN model.rt |->
            IF SummaryHas(models, elem) THEN SummaryLogeps(models, elem)
            ELSE (SolarOf(elem) + MH) * Scale]])

\* [X/Eu] from Sneden+08, 0.001 dex.
XEudict ==
    [Sr |-> -950, Y |-> -540, Zr |-> -710, Nb |-> -480, Mo |-> -470, Ru |-> -180,
     Rh |-> -70, Ba |-> -830, La |-> -600, Ce |-> -710, Pr |-> -280, Nd |-> -360,
     Sm |-> -140, Gd |-> -70, Tb |-> -20, Dy |-> -50, Ho |-> -20, Er |-> -60,
     Tm |-> -70, Yb |-> -160, Lu |-> -80, Hf |-> -270, Os |-> -30, Ir |-> 0]

\* Variant of MgMOf: no clipping.
MgMOf_Unclipped(models, MH) ==
    IF ~SummaryHas(models, "Mg") THEN 0
    ELSE LET v == Sub(SummaryXH(models, "Mg"), MH * Scale) IN
         IF IsNaN(v) THEN 0 ELSE v

\* MgM = summary_dict["Mg"][4] - MH, clipped to [-0.4, 0.4]; 0 when the
\* lookup raises or the value is NaN.  Times Scale.
MgMOf(models, MH) ==
    IF ~SummaryHas(models, "Mg") THEN 0
    ELSE LET v == Sub(SummaryXH(models, "Mg"), MH * Scale) IN
         IF IsNaN(v) THEN 0
         ELSE IF v > 400 * Scale THEN 400 * Scale
         ELSE IF v < -400 * Scale THEN -400 * Scale
         ELSE v

\* EuM = summary_dict["Eu"][4] - MH; 0 when the lookup raises or the value
\* is NaN.  Times Scale.
EuMOf(models, MH) ==
    IF ~SummaryHas(models, "Eu") THEN 0
    ELSE LET v == Sub(SummaryXH(models, "Eu"), MH * Scale) IN
         IF IsNaN(v) THEN 0 ELSE v

\* XM of the except branch of update_abundance_table_2, times Scale.  MH is
\* a whole number of dex, so 0.129 * MH and 0.096 * MH are whole in 0.001 dex.
ScalingOffset(models, elem, MH) ==
    IF elem \in {"O", "Si", "Ca", "Ti"} THEN MgMOf(models, MH)
    ELSE IF elem = "Cr" THEN (144 + (129 * MH) \div 1000) * Scale
    ELSE IF elem = "Mn" THEN (-234 + (96 * MH) \div 1000) * Scale
    ELSE IF elem \in DOMAIN XEudict THEN EuMOf(models, MH) + XEudict[elem] * Scale
    ELSE 0

\* Variant of update_abundance_table_2: XM = 0 for every element.
update_abundance_table_2_NoOffset(models, model, MH) ==
    FillFitted(models,
        [model EXCEPT !.rt = [elem \in DOMAIN model.rt |->
            IF SummaryHas(models, elem) THEN SummaryLogeps(models, elem)
            ELSE (SolarOf(elem) + MH) * Scale]])

\* update_abundance_table_2(session, model)
update_abundance_table_2(models, model, MH) ==
    FillFitted(models,
        [model EXCEPT !.rt = [elem \in DOMAIN model.rt |->
            IF SummaryHas(models, elem) THEN SummaryLogeps(models, elem)
            ELSE (SolarOf(elem) + MH) * Scale + ScalingOffset(models, elem, MH)]])

\* model.iterfit(...) returning: the fitted result is stored.
FitReturns(model) ==
    [model EXCEPT !.has_abund = TRUE, !.abund = model.fitval, !.filled = FALSE]

\* model.is_acceptable = False; model.user_flag = True
Reject(model) == [model EXCEPT !.is_acceptable = FALSE, !.user_flag = TRUE]

\* Variant of FirstLoopBody: no second call of iterfit; the model is rejected
\* when the call with the penalty function raises.
FirstLoopBody_NoRetry(models, model, MH, fit1, fit2) ==
    IF model.kind = "profile" \/ model.user_flag
    THEN [model |-> model, prior |-> 0, attempts |-> <<>>, raised |-> FALSE]
    ELSE IF fit1
    THEN [model |-> [model EXCEPT !.has_abund = TRUE, !.abund = model.fitval],
          prior |-> 1, attempts |-> <<[penalty |-> TRUE, raised |-> FALSE]>>,
          raised |-> FALSE]
    ELSE [model |-> [model EXCEPT !.is_acceptable = FALSE, !.user_flag = TRUE],
          prior |-> 1, attempts |-> <<[penalty |-> TRUE, raised |-> TRUE]>>,
          raised |-> FALSE]

\* Variant of FirstLoopBody: profile fits are not skipped.
FirstLoopBody_FitsProfile(models, model, MH, fit1, fit2) ==
    IF model.user_flag
    THEN [model |-> model, prior |-> 0, attempts |-> <<>>, raised |-> FALSE]
    ELSE LET m == update_abundance_table(models, model, MH) IN
         IF fit1
         THEN [model |-> FitReturns(m), prior |-> 1,
               attempts |-> <<[penalty |-> TRUE, raised |-> FALSE]>>, raised |-> FALSE]
         ELSE IF fit2
         THEN [model |-> FitReturns(m), prior |-> 1,
               attempts |-> <<[penalty |-> TRUE, raised |-> TRUE],
                              [penalty |-> FALSE, raised |-> FALSE]>>, raised |-> FALSE]
         ELSE [model |-> Reject(m), prior |-> 1,
               attempts |-> <<[penalty |-> TRUE, raised |-> TRUE],
                              [penalty |-> FALSE, raised |-> TRUE]>>, raised |-> FALSE]

\* Variant of FirstLoopBody: the user flag is not tested.
FirstLoopBody_NoFlagSkip(models, model, MH, fit1, fit2) ==
    IF model.kind = "profile"
    THEN [model |-> model, prior |-> 0, attempts |-> <<>>, raised |-> FALSE]
    ELSE LET m == update_abundance_table(models, model, MH) IN
         IF fit1
         THEN [model |-> FitReturns(m), prior |-> 1,
               attempts |-> <<[penalty |-> TRUE, raised |-> FALSE]>>, raised |-> FALSE]
         ELSE IF fit2
         THEN [model |-> FitReturns(m), prior |-> 1,
               attempts |-> <<[penalty |-> TRUE, raised |-> TRUE],
                              [penalty |-> FALSE, raised |-> FALSE]>>, raised |-> FALSE]
         ELSE [model |-> Reject(m), prior |-> 1,
               attempts |-> <<[penalty |-> TRUE, raised |-> TRUE],
                              [penalty |-> FALSE, raised |-> TRUE]>>, raised |-> FALSE]

\* The body of the first loop over session.spectral_models for one model
\* (lines 163-184): fit1 and fit2 tell whether the first and the second call
\* of iterfit return.  The result carries the model as the body leaves it,
\* which prior update ran (0: none), the calls of iterfit in order, and
\* whether an exception leaves the body.
FirstLoopBody(models, model, MH, fit1, fit2) ==
    IF model.kind = "profile" \/ model.user_flag
    THEN [model |-> model, prior |-> 0, attempts |-> <<>>, raised |-> FALSE]
    ELSE LET m == update_abundance_table(models, model, MH) IN
         IF fit1
         THEN [model |-> FitReturns(m), prior |-> 1,
               attempts |-> <<[penalty |-> TRUE, raised |-> FALSE]>>, raised |-> FALSE]
         ELSE IF fit2
         THEN [model |-> FitReturns(m), prior |-> 1,
               attempts |-> <<[penalty |-> TRUE, raised |-> TRUE],
                              [penalty |-> FALSE, raised |-> FALSE]>>, raised |-> FALSE]
         ELSE [model |-> Reject(m), prior |-> 1,
               attempts |-> <<[penalty |-> TRUE, raised |-> TRUE],
                              [penalty |-> FALSE, raised |-> TRUE]>>, raised |-> FALSE]

\* Variant of SecondLoopBody: the exception of iterfit is not caught.
SecondLoopBody_Propagates(models, model, MH, fit1) ==
    IF model.kind = "profile" \/ model.user_flag
    THEN [model |-> model, prior |-> 0, attempts |-> <<>>, raised |-> FALSE]
    ELSE IF fit1
    THEN [model |-> [model EXCEPT !.has_abund = TRUE, !.abund = model.fitval],
          prior |-> 2, attempts |-> <<[penalty |-> FALSE, raised |-> FALSE]>>,
          raised |-> FALSE]
    ELSE [model |-> model, prior |-> 2,
          attempts |-> <<[penalty |-> FALSE, raised |-> TRUE]>>, raised |-> TRUE]

\* The body of the second loop (lines 190-204): one call of iterfit, without
\* the penalty function.
SecondLoopBody(models, model, MH, fit1) ==
    IF model.kind = "profile" \/ model.user_flag
    THEN [model |-> model, prior |-> 0, attempts |-> <<>>, raised |-> FALSE]
    ELSE LET m == update_abundance_table_2(models, model, MH) IN
         IF fit1
         THEN [model |-> FitReturns(m), prior |-> 2,
               attempts |-> <<[penalty |-> FALSE, raised |-> FALSE]>>, raised |-> FALSE]
         ELSE [model |-> Reject(m), prior |-> 2,
               attempts |-> <<[penalty |-> FALSE, raised |-> TRUE]>>, raised |-> FALSE]

\* model.find_upper_limit(sigma=5) returning: the model is accepted as an
\* upper limit at its limiting abundance.
UpperLimitReturns(model) ==
    [model EXCEPT !.is_acceptable = TRUE, !.is_upper_limit = TRUE,
                  !.has_abund = TRUE, !.abund = model.limitval, !.filled = FALSE]

\* Variant of DetectionBody: the exception of find_upper_limit is not caught.
DetectionBody_UlPropagates(model, detected, found) ==
    IF model.kind # "synthesis"
    THEN [model |-> model, checked |-> FALSE, sigma |-> 0, detected |-> FALSE,
          ul_called |-> FALSE, ul_sigma |-> 0, ul_raised |-> FALSE, flagged |-> model,
          raised |-> FALSE]
    ELSE IF detected
    THEN [model |-> model, checked |-> TRUE, sigma |-> 3, detected |-> TRUE,
          ul_called |-> FALSE, ul_sigma |-> 0, ul_raised |-> FALSE, flagged |-> model,
          raised |-> FALSE]
    ELSE [model |-> IF found THEN UpperLimitReturns(Reject(model)) ELSE Reject(model),
          checked |-> TRUE, sigma |-> 3, detected |-> FALSE,
          ul_called |-> TRUE, ul_sigma |-> 5, ul_raised |-> ~found,
          flagged |-> Reject(model), raised |-> ~found]

\* Variant of DetectionBody: a model that is not detected keeps its flags
\* at the call of find_upper_limit.
DetectionBody_NoFlag(model, detected, found) ==
    IF model.kind # "synthesis"
    THEN [model |-> model, checked |-> FALSE, sigma |-> 0, detected |-> FALSE,
          ul_called |-> FALSE, ul_sigma |-> 0, ul_raised |-> FALSE, flagged |-> model,
          raised |-> FALSE]
    ELSE IF detected
    THEN [model |-> model, checked |-> TRUE, sigma |-> 3, detected |-> TRUE,
          ul_called |-> FALSE, ul_sigma |-> 0, ul_raised |-> FALSE, flagged |-> model,
          raised |-> FALSE]
    ELSE [model |-> IF found THEN UpperLimitReturns(model) ELSE model,
          checked |-> TRUE, sigma |-> 3, detected |-> FALSE,
          ul_called |-> TRUE, ul_sigma |-> 5, ul_raised |-> ~found,
          flagged |-> model, raised |-> FALSE]

\* The body of the detection loop (lines 207-216): detected is the first
\* component of check_line_detection(sigma=3), found tells whether
\* find_upper_limit(sigma=5) returns.  flagged is the model at the call of
\* find_upper_limit.
DetectionBody(model, detected, found) ==
    IF model.kind # "synthesis"
    THEN [model |-> model, checked |-> FALSE, sigma |-> 0, detected |-> FALSE,
          ul_called |-> FALSE, ul_sigma |-> 0, ul_raised |-> FALSE, flagged |-> model,
          raised |-> FALSE]
    ELSE IF detected
    THEN [model |-> model, checked |-> TRUE, sigma |-> 3, detected |-> TRUE,
          ul_called |-> FALSE, ul_sigma |-> 0, ul_raised |-> FALSE, flagged |-> model,
          raised |-> FALSE]
    ELSE [model |-> IF found THEN UpperLimitReturns(Reject(model)) ELSE Reject(model),
          checked |-> TRUE, sigma |-> 3, detected |-> FALSE,
          ul_called |-> TRUE, ul_sigma |-> 5, ul_raised |-> ~found,
          flagged |-> Reject(model), raised |-> FALSE]

\* Variant of WidthLoop: a model as wide as max_fwhm is removed too.
RECURSIVE WidthLoop_AtLeast(_, _, _, _)
WidthLoop_AtLeast(models, i, max_fwhm, num_removed) ==
    IF i > Len(models) THEN [models |-> models, num_removed |-> num_removed]
    ELSE IF models[i].is_acceptable /\ models[i].fwhm >= max_fwhm
    THEN WidthLoop_AtLeast([models EXCEPT ![i] = [models[i] EXCEPT
                                !.is_acceptable = FALSE, !.user_flag = TRUE]],
                           i + 1, max_fwhm, num_removed + 1)
    ELSE WidthLoop_AtLeast(models, i + 1, max_fwhm, num_removed)

\* The FWHM sanity check (lines 219-224) from model i on.
RECURSIVE WidthLoop(_, _, _, _)
WidthLoop(models, i, max_fwhm, num_removed) ==
    IF i > Len(models) THEN [models |-> models, num_removed |-> num_removed]
    ELSE IF models[i].is_acceptable /\ models[i].fwhm > max_fwhm
    THEN WidthLoop([models EXCEPT ![i] = Reject(models[i])], i + 1, max_fwhm,
                   num_removed + 1)
    ELSE WidthLoop(models, i + 1, max_fwhm, num_removed)

\* The prior entries of a synthesis model by its element.
RtElems(elem) == IF elem = "Mg" THEN {"Ti", "Cr", "C"} ELSE {"Mg", "Ba", "Mn"}

\* max_fwhm of the configuration (0.01 A).
MaxFwhmValue == 11

\* The element a synthesis model at position i fits: Mg and Eu in turn.
ElemAt(i) == IF i % 2 = 1 THEN "Mg" ELSE "Eu"

\* The models of a session of run_synth_fit: synthesis models, fitted and
\* accepted before the run or freshly imported (not fitted, not
\* acceptable), flagged by the user or not, and an accepted Fe profile fit.
FitModels ==
    [kind : {"synthesis"}, fitted : BOOLEAN, user_flag : BOOLEAN]
    \cup [kind : {"profile"}, fitted : {TRUE}, user_flag : {FALSE}]

MkFitModel(m, i) ==
    LET elem == IF m.kind = "profile" THEN "Fe" ELSE ElemAt(i)
        solar == solar_composition(ElemSpecies(elem))
    IN [kind |-> m.kind, elem |-> elem, species |-> ElemSpecies(elem),
        is_acceptable |-> m.fitted, user_flag |-> m.user_flag, is_upper_limit |-> FALSE,
        has_abund |-> m.fitted,
        abund |-> IF m.fitted THEN solar - 250 ELSE NaN,
        fitval |-> solar - 150, limitval |-> solar - 100,
        filled |-> FALSE, fill |-> NaN, fwhm |-> FwhmAt(i),
        rt |-> IF m.kind = "synthesis"
               THEN [e \in RtElems(elem) |-> (SolarOf(e) - 2000) * Scale]
               ELSE << >>]

\* The position after the body for model i of pass it (0-based) of a loop
\* of numiter passes over n models: the next model, the next pass, or the
\* end of the loop (it = numiter).
NextPos(it, i, n) == IF i < n THEN [it |-> it, i |-> i + 1] ELSE [it |-> it + 1, i |-> 1]

\* The run at line 158: the session is loaded, the equivalent widths are
\* measured and the master list is imported.
InitFit ==
    /\ \E n \in 1..MaxFitModels : \E f \in [1..n -> FitModels] :
          session = [i \in 1..n |-> MkFitModel(f[i], i)]
    /\ pc = "loop1"
    /\ tab = NoTable
    /\ tab_ul = NoTable
    /\ summary_tab = NoTable
    /\ fulltab = NoTable
    /\ minerr = 0
    /\ default_esys = 0
    /\ rhomat = <<>>
    /\ scatter = <<>>
    /\ \E numiter \in NumIterValues :
          run = [numiter |-> numiter, max_fwhm |-> MaxFwhmValue, MH |-> -2000,
                 it |-> 0, i |-> 1,
                 nfit |-> [k \in 1..Len(session) |-> 0],
                 everraised |-> {}, ulraised |-> {}, snap |-> <<>>,
                 last |-> [op |-> "none"], num_removed |-> 0, saved |-> FALSE]

\* Variant of AfterBody: the detection check follows the first loop.
AfterBody_OneLoop(b, loop) ==
    /\ session' = [session EXCEPT ![run.i] = b.model]
    /\ LET pos == NextPos(run.it, run.i, Len(session)) IN
         /\ run' = [run EXCEPT !.it = IF pos.it = run.numiter THEN 0 ELSE pos.it,
                               !.i = pos.i,
                               !.snap = IF run.i = 1 THEN session ELSE @,
                               !.nfit[run.i] = @ + Len(b.attempts),
                               !.everraised = IF \E a \in 1..Len(b.attempts) :
                                                    b.attempts[a].raised
                                               THEN @ \cup {run.i} ELSE @,
                               !.last = [op |-> "fit", loop |-> loop, i |-> run.i,
                                         pass |-> (loop - 1) * run.numiter + run.it + 1,
                                         prior |-> b.prior, attempts |-> b.attempts]]
         /\ pc' = IF b.raised THEN "aborted"
                  ELSE IF pos.it < run.numiter THEN pc
                  ELSE "detect"

\* The session and the log of the run after the body b of a fitting loop
\* ran on model run.i.  nfit counts the calls of iterfit on each model and
\* everraised collects the models one of whose calls raised, both over the
\* two fitting loops.  snap is session.spectral_models as it was when the
\* pass began (set by the visit of the first model).
AfterBody(b, loop) ==
    /\ session' = [session EXCEPT ![run.i] = b.model]
    /\ LET pos == NextPos(run.it, run.i, Len(session)) IN
         /\ run' = [run EXCEPT !.it = IF pos.it = run.numiter THEN 0 ELSE pos.it,
                               !.i = pos.i,
                               !.snap = IF run.i = 1 THEN session ELSE @,
                               !.nfit[run.i] = @ + Len(b.attempts),
                               !.everraised = IF \E a \in 1..Len(b.attempts) :
                                                    b.attempts[a].raised
                                               THEN @ \cup {run.i} ELSE @,
                               !.last = [op |-> "fit", loop |-> loop, i |-> run.i,
                                         pass |-> (loop - 1) * run.numiter + run.it + 1,
                                         prior |-> b.prior, attempts |-> b.attempts]]
         /\ pc' = IF b.raised THEN "aborted"
                  ELSE IF pos.it < run.numiter THEN pc
                  ELSE IF loop = 1 THEN "loop2" ELSE "detect"

\* One model of one pass of the first loop (lines 159-184).
FirstLoopStep ==
    /\ pc = "loop1"
    /\ \E fit1, fit2 \in BOOLEAN :
         AfterBody(FirstLoopBody(session, session[run.i], run.MH, fit1, fit2), 1)
    /\ UNCHANGED <<tab, tab_ul, summary_tab, fulltab, minerr, default_esys, rhomat, scatter>>

\* One model of one pass of the second loop (lines 186-204).
SecondLoopStep ==
    /\ pc = "loop2"
    /\ \E fit1 \in BOOLEAN :
         AfterBody(SecondLoopBody(session, session[run.i], run.MH, fit1), 2)
    /\ UNCHANGED <<tab, tab_ul, summary_tab, fulltab, minerr, default_esys, rhomat, scatter>>

\* One model of the detection loop (lines 206-216).  The log of the fitting
\* loops is dropped model by model; ulraised collects the models whose
\* upper-limit search raised.
DetectionStep ==
    /\ pc = "detect"
    /\ \E detected, found \in BOOLEAN :
         LET b == DetectionBody(session[run.i], detected, found) IN
           /\ session' = [session EXCEPT ![run.i] = b.model]
           /\ run' = [run EXCEPT !.i = IF run.i < Len(session) THEN run.i + 1 ELSE 1,
                                 !.nfit[run.i] = 0,
                                 !.snap = <<>>,
                                 !.everraised = @ \ {run.i},
                                 !.ulraised = IF b.ul_raised THEN @ \cup {run.i} ELSE @,
                                 !.last = [op |-> "detect", i |-> run.i,
                                           checked |-> b.checked, sigma |-> b.sigma,
                                           detected |-> b.detected,
                                           ul_called |-> b.ul_called,
                                           ul_sigma |-> b.ul_sigma,
                                           ul_raised |-> b.ul_raised,
                                           flagged |-> b.flagged]]
           /\ pc' = IF b.raised THEN "aborted"
                    ELSE IF run.i < Len(session) THEN pc ELSE "width"
    /\ UNCHANGED <<tab, tab_ul, summary_tab, fulltab, minerr, default_esys, rhomat, scatter>>

\* The FWHM sanity check (lines 218-226).
WidthCheck ==
    /\ pc = "width"
    /\ LET r == WidthLoop(session, 1, run.max_fwhm, 0) IN
         /\ session' = r.models
         /\ run' = [run EXCEPT !.num_removed = r.num_removed, !.last = [op |-> "width"]]
    /\ pc' = "save"
    /\ UNCHANGED <<tab, tab_ul, summary_tab, fulltab, minerr, default_esys, rhomat, scatter>>

\* session.add_to_notes(notes); session.save(smh_fname, overwrite=True)
SaveSession ==
    /\ pc = "save"
    /\ run' = [run EXCEPT !.saved = TRUE, !.last = [op |-> "save"]]
    /\ pc' = "start"
    /\ UNCHANGED <<session, tab, tab_ul, summary_tab, fulltab, minerr, default_esys,
                   rhomat, scatter>>

\* run_synth_fit from line 158 to its end, then the quick tables of
\* run_summary on the saved session.
NextFit ==
    \/ FirstLoopStep
    \/ SecondLoopStep
    \/ DetectionStep
    \/ WidthCheck
    \/ SaveSession
    \/ GetQuickLines
    \/ GetQuickSummary
    \/ GetQuickLimits

SpecFit == InitFit /\ [][NextFit]_vars

\* ======================================================================
\* Properties of the quick pipeline
\* ======================================================================
Detected(i) == session[i].is_acceptable /\ ~session[i].is_upper_limit
Limit(i) == session[i].is_acceptable /\ session[i].is_upper_limit
DetSpecies == {session[i].species : i \in {j \in 1..Len(session) : Detected(j)}}
LimSpecies == {session[i].species : i \in {j \in 1..Len(session) : Limit(j)}}
HasRow(t, i) == \E k \in 1..Len(t.rows) : t.rows[k].index = i - 1
ColSet(t) == {t.colnames[k] : k \in 1..Len(t.colnames)}
RowSpecies(rows) == {rows[k].species : k \in 1..Len(rows)}

\* C1: once get_quick_lines has run, a model has a row in the detection line
\* table iff it is acceptable and not an upper limit; once get_quick_limits
\* has run, a model has a row among the upper-limit rows iff it is acceptable
\* and an upper limit; a model that is not acceptable has a row in neither.
C1_RowsIffFlags ==
    /\ pc \in {"lines", "summary", "lines_raised"} =>
          \A i \in 1..Len(session) : HasRow(tab, i) <=> Detected(i)
    /\ pc = "limits" =>
          \A i \in 1..Len(session) : HasRow(tab_ul, i) <=> Limit(i)

\* C2: in every summary row, of get_quick_summary and of the rows appended
\* by get_quick_limits, [X/Fe] is [X/Fe2] when the fractional part of the
\* species exceeds 0.01 and [X/Fe1] otherwise (the same value, NaN included).
C2_XFeSelect ==
    pc \in {"summary", "limits"} =>
        \A k \in 1..Len(summary_tab.rows) :
            LET r == summary_tab.rows[k] IN
            r.XFe = (IF r.species % 100 > 1 THEN r.XFe2 ELSE r.XFe1)

C2_Witness ==
    /\ pc = "limits"
    /\ \E k \in 1..Len(summary_tab.rows) :
          LET r == summary_tab.rows[k] IN
          /\ k > Cardinality(DetSpecies)
          /\ r.species % 100 > 1
          /\ ~IsNaN(r.XFe1) /\ ~IsNaN(r.XFe2) /\ r.XFe1 # r.XFe2
    /\ \E k \in 1..Len(summary_tab.rows) :
          LET r == summary_tab.rows[k] IN
          /\ k <= Cardinality(DetSpecies)
          /\ r.species % 100 = 0
          /\ ~IsNaN(r.XFe1) /\ ~IsNaN(r.XFe2) /\ r.XFe1 # r.XFe2

\* C3: in the summary of get_quick_summary, without a 26.0 row [X/Fe1] is
\* NaN in every row and so [X/Fe] is NaN for every species whose fractional
\* part is at most 0.01; with a 26.0 row and without a 26.1 row, [X/Fe2]
\* equals [X/Fe1] in every row.  Every step from a line table ends with a
\* summary (get_quick_summary does not raise).
C3_FeFallbackState ==
    pc = "summary" =>
        LET rows == summary_tab.rows IN
        /\ FeI \notin RowSpecies(rows) =>
              \A k \in 1..Len(rows) :
                  /\ IsNaN(rows[k].XFe1)
                  /\ rows[k].species % 100 <= 1 => IsNaN(rows[k].XFe)
        /\ (FeI \in RowSpecies(rows) /\ FeII \notin RowSpecies(rows)) =>
              \A k \in 1..Len(rows) : rows[k].XFe2 = rows[k].XFe1

C3_FeFallback ==
    /\ []C3_FeFallbackState
    /\ [][pc = "lines" => pc' = "summary"]_vars

C3_Witness ==
    /\ pc = "summary"
    /\ FeI \in RowSpecies(summary_tab.rows)
    /\ FeII \notin RowSpecies(summary_tab.rows)
    /\ \E k \in 1..Len(summary_tab.rows) :
          LET r == summary_tab.rows[k] IN
          r.species % 100 > 1 /\ ~IsNaN(r.XFe) /\ r.XFe # 0 /\ r.XFe = r.XFe1

\* Sum of logeps^p over the rows of the line table with a given species.
RECURSIVE PowerSum(_, _, _)
PowerSum(K, species, p) ==
    IF K = {} THEN 0
    ELSE LET k == CHOOSE x \in K : TRUE
             v == tab.rows[k].logeps
         IN (IF tab.rows[k].species # species THEN 0 ELSE IF p = 1 THEN v ELSE v * v)
            + PowerSum(K \ {k}, species, p)

\* C4: get_quick_summary returns exactly one row per distinct species of the
\* line table; N is the number of lines of the species, logeps their mean,
\* sigma their population standard deviation, stderr = sigma / sqrt(N) and
\* [X/H] = logeps - solar (all NaN-propagating); lines 26.0:7.40, 26.0:7.50,
\* 26.1:7.55 give N=2, logeps=7.45, [X/H]=-0.05 for 26.0, N=1, [X/H]=0.05
\* for 26.1 and [X/Fe]=0 for both.
C4_SummaryStats ==
    pc = "summary" =>
        LET rows == summary_tab.rows
            K == 1..Len(tab.rows)
        IN
        /\ RowSpecies(rows) = RowSpecies(tab.rows)
        /\ Len(rows) = Cardinality(RowSpecies(tab.rows))
        /\ \A j \in 1..Len(rows) :
              LET r == rows[j]
                  Ks == {k \in K : tab.rows[k].species = r.species}
                  N == Cardinality(Ks)
                  anyNaN == \E k \in Ks : IsNaN(tab.rows[k].logeps)
                  S1 == PowerSum(K, r.species, 1)
                  S2 == PowerSum(K, r.species, 2)
              IN /\ r.N = N
                 /\ IF anyNaN
                    THEN IsNaN(r.logeps) /\ IsNaN(r.sigma2) /\ IsNaN(r.stderr2)
                         /\ IsNaN(r.XH)
                    ELSE /\ r.logeps * N = Scale * S1
                         /\ r.sigma2 * N * N = Scale * Scale * Scale * (N * S2 - S1 * S1)
                         /\ r.stderr2 * N = r.sigma2 * Scale
                         /\ r.XH = r.logeps - Scale * solar_composition(r.species)
        /\ [k \in K |-> <<tab.rows[k].species, tab.rows[k].logeps>>]
               = <<(<<2600, 740>>), (<<2600, 750>>), (<<2610, 755>>)>> =>
             /\ Len(rows) = 2
             /\ rows[1].species = 2600 /\ rows[1].N = 2
             /\ rows[1].logeps * 2 = Scale * 1490
             /\ rows[1].XH * 2 = Scale * (-10) /\ rows[1].XFe = 0
             /\ rows[2].species = 2610 /\ rows[2].N = 1
             /\ rows[2].XH = Scale * 5 /\ rows[2].XFe = 0

C4_Witness ==
    /\ pc = "summary"
    /\ [k \in 1..Len(tab.rows) |-> <<tab.rows[k].species, tab.rows[k].logeps>>]
           = <<(<<2600, 740>>), (<<2600, 750>>), (<<2610, 755>>)>>
    /\ summary_tab.rows[1].sigma2 = 25 * Scale * Scale * Scale

\* C5: on a line table with zero rows get_quick_summary is enabled (does
\* not raise) and returns a summary with zero rows that has the columns
\* [X/Fe], [X/Fe1] and [X/Fe2].
C5_EmptySummary ==
    /\ (pc = "lines" /\ tab.rows = <<>>) => ENABLED GetQuickSummary
    /\ (pc = "summary" /\ tab.rows = <<>>) =>
          /\ summary_tab.rows = <<>>
          /\ {"[X/Fe]", "[X/Fe1]", "[X/Fe2]"} \subseteq ColSet(summary_tab)
          /\ Len(summary_tab.colnames) = Cardinality(ColSet(summary_tab))

C5_Witness ==
    /\ pc = "summary"
    /\ tab.rows = <<>>
    /\ Len(session) > 0
    /\ summary_tab.rows = <<>>

\* The detection-based part of the final summary: its first rows, one per
\* detected species.
DetRows == SubSeq(summary_tab.rows, 1, Cardinality(DetSpecies))
LimRows == SubSeq(summary_tab.rows, Cardinality(DetSpecies) + 1, Len(summary_tab.rows))

\* C6: in the summary returned by get_quick_limits no species has two rows,
\* and the species of the appended upper-limit rows are exactly the species
\* with an accepted upper-limit model and no detection row.
C6_LimitSetDifference ==
    pc = "limits" =>
        /\ Len(summary_tab.rows) = Cardinality(RowSpecies(summary_tab.rows))
        /\ RowSpecies(DetRows) = DetSpecies
        /\ RowSpecies(LimRows) = LimSpecies \ DetSpecies

C6_Witness ==
    /\ pc = "limits"
    /\ LimSpecies \cap DetSpecies # {}
    /\ LimSpecies \ DetSpecies # {}
    /\ Len(LimRows) > 0

\* The Fe I and Fe II references read off the detection rows.
RefFe1 ==
    IF \E k \in 1..Len(DetRows) : DetRows[k].species = FeI
    THEN (CHOOSE r \in {DetRows[k] : k \in 1..Len(DetRows)} : r.species = FeI).XH
    ELSE NaN
RefFe2 ==
    IF \E k \in 1..Len(DetRows) : DetRows[k].species = FeII
    THEN (CHOOSE r \in {DetRows[k] : k \in 1..Len(DetRows)} : r.species = FeII).XH
    ELSE RefFe1

\* C7: an upper-limit summary row has N = the number of accepted upper-limit
\* lines of its species, logeps = the least abundance among them (NaN when
\* one of them has no readable abundance), [X/H] = logeps - solar, and
\* [X/Fe1], [X/Fe2] = [X/H] minus the Fe I / Fe II references of the
\* detection-based summary.
C7_LimitRowValues ==
    pc = "limits" =>
        \A j \in 1..Len(LimRows) :
            LET r == LimRows[j]
                L == {i \in 1..Len(session) : Limit(i) /\ session[i].species = r.species}
            IN /\ r.N = Cardinality(L)
               /\ IF \A i \in L : session[i].has_abund
                  THEN /\ \E i \in L : r.logeps = Scale * session[i].abund
                       /\ \A i \in L : r.logeps <= Scale * session[i].abund
                       /\ r.XH = r.logeps - Scale * solar_composition(r.species)
                       /\ r.XFe1 = (IF IsNaN(RefFe1) THEN NaN ELSE r.XH - RefFe1)
                       /\ r.XFe2 = (IF IsNaN(RefFe2) THEN NaN ELSE r.XH - RefFe2)
                  ELSE IsNaN(r.logeps) /\ IsNaN(r.XH) /\ IsNaN(r.XFe1) /\ IsNaN(r.XFe2)

C7_Witness ==
    /\ pc = "limits"
    /\ \E j \in 1..Len(LimRows) :
          /\ LimRows[j].N = 2
          /\ LimRows[j].logeps = Scale * 740
          /\ ~IsNaN(LimRows[j].XFe2) /\ LimRows[j].XFe2 # LimRows[j].XH

\* ======================================================================
\* Properties of the full-errors line table
\* ======================================================================
\* The model a row of the full-errors table was built from.
RowModel(r) == session[r.index + 1]

\* The errors of a model are read without an exception: the abundance and
\* both error entries exist and a synthesis model's staterr is not NaN.
ReadOk(m) ==
    m.has_abund /\ m.has_errors /\ ~(m.kind = "synthesis" /\ IsNaN(m.staterr))

\* e^T R e for the stellar-parameter components of a row.
RowQuadForm(r) ==
    IF IsNaN(r.e_Teff) THEN NaN
    ELSE LET e == <<r.e_Teff, r.e_logg, r.e_vt, r.e_MH>> IN
         e[1] * (rhomat[1][1] * e[1] + rhomat[1][2] * e[2] + rhomat[1][3] * e[3] + rhomat[1][4] * e[4])
       + e[2] * (rhomat[2][1] * e[1] + rhomat[2][2] * e[2] + rhomat[2][3] * e[3] + rhomat[2][4] * e[4])
       + e[3] * (rhomat[3][1] * e[1] + rhomat[3][2] * e[2] + rhomat[3][3] * e[3] + rhomat[3][4] * e[4])
       + e[4] * (rhomat[4][1] * e[1] + rhomat[4][2] * e[2] + rhomat[4][3] * e[3] + rhomat[4][4] * e[4])

Geq(a, b) == ~IsNaN(a) /\ ~IsNaN(b) /\ a >= b
\* A component moved away from zero by d.
Grown(c, d) == IF c >= 0 THEN c + d ELSE c - d

\* e_tot^2 is at least the square of each component, no component grown in
\* magnitude lowers it, and weight * e_tot^2 = 1.
RowTotalDominates(r) ==
    /\ Geq(r.e_tot2, r.e_stat2) /\ Geq(r.e_tot2, r.e_sys2)
    /\ Geq(r.e_tot2, Sq(r.e_Teff)) /\ Geq(r.e_tot2, Sq(r.e_logg))
    /\ Geq(r.e_tot2, Sq(r.e_vt)) /\ Geq(r.e_tot2, Sq(r.e_MH))
RowTotalMonotone(r) ==
    \A d \in {1, 7} :
        /\ Geq(TotalErrSq(r.e_stat2 + d, r.e_sys2, r.e_Teff, r.e_logg, r.e_vt, r.e_MH), r.e_tot2)
        /\ Geq(TotalErrSq(r.e_stat2, r.e_sys2 + d, r.e_Teff, r.e_logg, r.e_vt, r.e_MH), r.e_tot2)
        /\ Geq(TotalErrSq(r.e_stat2, r.e_sys2, Grown(r.e_Teff, d), r.e_logg, r.e_vt, r.e_MH), r.e_tot2)
        /\ Geq(TotalErrSq(r.e_stat2, r.e_sys2, r.e_Teff, Grown(r.e_logg, d), r.e_vt, r.e_MH), r.e_tot2)
        /\ Geq(TotalErrSq(r.e_stat2, r.e_sys2, r.e_Teff, r.e_logg, Grown(r.e_vt, d), r.e_MH), r.e_tot2)
        /\ Geq(TotalErrSq(r.e_stat2, r.e_sys2, r.e_Teff, r.e_logg, r.e_vt, Grown(r.e_MH, d)), r.e_tot2)
RowWeightInverse(r) ==
    r.weight.kind = "finite" /\ r.weight.num * r.e_tot2 = r.weight.den

\* C9 (as claimed): for every line of the full-errors table e_tot is at
\* least each component in absolute value, growing a component never lowers
\* e_tot, and weight * e_tot^2 = 1.
C9_EveryLine ==
    pc = "full" =>
        \A k \in 1..Len(fulltab.rows) :
            LET r == fulltab.rows[k] IN
            RowTotalDominates(r) /\ RowTotalMonotone(r) /\ RowWeightInverse(r)

\* C9 (amended): for every line whose errors are read without an exception,
\* e_tot is at least each component in absolute value and growing the
\* magnitude of a component never lowers e_tot; weight * e_tot^2 = 1 when
\* e_tot > 0, and the weight is infinite when e_tot = 0.  A line whose
\* errors could not be read has e_tot = NaN and weight = NaN.
C9_ReadLines ==
    pc = "full" =>
        \A k \in 1..Len(fulltab.rows) :
            LET r == fulltab.rows[k] IN
            IF ReadOk(RowModel(r))
            THEN /\ RowTotalDominates(r)
                 /\ RowTotalMonotone(r)
                 /\ IF r.e_tot2 > 0 THEN RowWeightInverse(r)
                    ELSE r.e_tot2 = 0 /\ r.weight.kind = "inf"
            ELSE IsNaN(r.e_tot2) /\ r.weight.kind = "nan"

C9_Witness ==
    /\ pc = "full"
    /\ \E k \in 1..Len(fulltab.rows) :
          LET r == fulltab.rows[k] IN
          ReadOk(RowModel(r)) /\ r.e_logg = -40 /\ r.e_tot2 > 1600
          /\ r.weight.den = r.e_tot2
    /\ \E k \in 1..Len(fulltab.rows) : ~ReadOk(RowModel(fulltab.rows[k]))

\* C10: for every line whose errors are read without an exception,
\* e_stat^2 = raw_stat^2 + minerr^2, where raw_stat is the line's 1-sigma
\* abundance error, raised for a synthesis model to the covariance-derived
\* error when that is finite and larger; with minerr > 0 such a line has
\* e_tot > 0 and a finite weight.
C10_StatFloor ==
    pc = "full" =>
        \A k \in 1..Len(fulltab.rows) :
            LET r == fulltab.rows[k]
                m == RowModel(r)
                raw == IF m.kind = "synthesis" /\ ~IsNaN(m.coverr) /\ m.coverr > m.staterr
                       THEN m.coverr ELSE m.staterr
            IN ReadOk(m) =>
                 /\ r.e_stat2 = raw * raw + minerr * minerr
                 /\ minerr > 0 => (r.e_tot2 > 0 /\ r.weight.kind = "finite")

C10_Witness ==
    /\ pc = "full"
    /\ minerr > 0
    /\ default_esys = 0
    /\ \E k \in 1..Len(fulltab.rows) :
          LET r == fulltab.rows[k] IN
          /\ ReadOk(RowModel(r)) /\ RowModel(r).staterr = 0
          /\ RowModel(r).kind = "profile"
          /\ r.e_tot2 = minerr * minerr /\ r.weight.kind = "finite"
    /\ \E k \in 1..Len(fulltab.rows) :
          LET r == fulltab.rows[k] IN
          /\ ReadOk(RowModel(r)) /\ RowModel(r).kind = "synthesis"
          /\ RowModel(r).staterr = 0 /\ r.e_stat2 = 900 + minerr * minerr

\* ======================================================================
\* Properties of the scatter estimation
\* ======================================================================
\* The rows the line loop of get_fullerrors_lines builds for the session.
ScatterRows ==
    FullLinesLoop(session, 1,
        [rows |-> <<>>, fwhm |-> NaN, fwhm_bound |-> FALSE, raised |-> FALSE],
        minerr, rhomat).rows
ScatterX(species) ==
    LET t == SelectSpecies(ScatterRows, species) IN [k \in 1..Len(t) |-> t[k].logeps]
ScatterEx2(species) ==
    LET t == SelectSpecies(ScatterRows, species) IN [k \in 1..Len(t) |-> t[k].e_stat2]
ScatterRan == pc \in {"full_estimated", "scatter_raised"}

\* func is finite and of the same strict sign at s = 0 and at s = s_max.
NoSignChange(species) ==
    LET f0 == func(ScatterX(species), ScatterEx2(species), 0)
        fm == func(ScatterX(species), ScatterEx2(species), s_max)
    IN /\ ~f0.nan
       /\ ~fm.nan
       /\ FuncSign(f0) # 0
       /\ FuncSign(f0) = FuncSign(fm)

\* C11: for every species whose residual func has the same sign at s = 0 and
\* at s = s_max, the estimation ends with s = 0 and does not raise, so the
\* table build is not aborted by the root finder.
C11_NoSignChangeZero ==
    ScatterRan =>
        \A k \in 1..Len(scatter) :
            NoSignChange(scatter[k].species) =>
                scatter[k].outcome # "raised" /\ scatter[k].s = 0

\* The lines of the species all have the same fitted abundance and the same
\* statistical error.
ZeroSpread(species) ==
    LET x == ScatterX(species)
        ex2 == ScatterEx2(species)
    IN \A i \in 1..Len(x) :
          /\ ~IsNaN(x[i])
          /\ ~IsNaN(ex2[i])
          /\ x[i] = x[1]
          /\ ex2[i] = ex2[1]

\* C13: for every species whose lines all have the same statistical error
\* and the same fitted abundance, the estimation returns s = 0, whatever the
\* number of lines.
C13_ZeroSpreadZero ==
    ScatterRan =>
        \A k \in 1..Len(scatter) :
            ZeroSpread(scatter[k].species) =>
                scatter[k].outcome # "raised" /\ scatter[k].s = 0

\* The inputs of the species are finite: no NaN abundance or error.
FiniteInputs(species) ==
    LET x == ScatterX(species)
        ex2 == ScatterEx2(species)
    IN \A i \in 1..Len(x) : ~IsNaN(x[i]) /\ ~IsNaN(ex2[i])

\* C29: for every species with finite abundances and statistical errors the
\* outer loop of the scatter estimation is left by one of its two break
\* statements in the first or the second iteration; the else branch of the
\* for loop is not reached.
C29_BreakWithinTwo ==
    ScatterRan =>
        \A k \in 1..Len(scatter) :
            FiniteInputs(scatter[k].species) =>
                /\ scatter[k].outcome \in {"guard", "converged"}
                /\ scatter[k].iters <= 2
                /\ ~scatter[k].warned

\* The scatter estimates recorded for the species of row r.
EstimatesOf(r) ==
    {k \in 1..Len(scatter) : scatter[k].species = r.species}

\* C30: e_sys is constant within a species in the table returned by
\* get_fullerrors_lines: without the estimation every line has
\* e_sys = default_esys; with the estimation the lines of one species all
\* carry the scatter s found for the species, and 0 <= s <= s_max.
C30_EsysPerSpecies ==
    /\ pc = "full" =>
          \A k \in 1..Len(fulltab.rows) :
              fulltab.rows[k].e_sys2 = Sq(default_esys)
    /\ pc = "full_estimated" =>
          /\ \A k \in 1..Len(fulltab.rows) :
                /\ Cardinality(EstimatesOf(fulltab.rows[k])) = 1
                /\ \A e \in EstimatesOf(fulltab.rows[k]) :
                      /\ 0 <= scatter[e].s
                      /\ scatter[e].s <= s_max
                      /\ fulltab.rows[k].e_sys2 = Sq(scatter[e].s)
          /\ \A j, k \in 1..Len(fulltab.rows) :
                fulltab.rows[j].species = fulltab.rows[k].species =>
                    fulltab.rows[j].e_sys2 = fulltab.rows[k].e_sys2

\* Two lines of one species share a scatter that is neither 0 nor default_esys.
C30_Witness ==
    /\ pc = "full_estimated"
    /\ Len(fulltab.rows) = 2
    /\ fulltab.rows[1].species = fulltab.rows[2].species
    /\ fulltab.rows[1].e_sys2 > 0
    /\ fulltab.rows[1].e_sys2 # Sq(default_esys)
    /\ fulltab.rows[1].e_sys2 = fulltab.rows[2].e_sys2

\* ======================================================================
\* Properties of run_synth_fit
\* ======================================================================
\* The next step is the body of a fitting loop (of the given loop, 1 or 2)
\* on an unflagged synthesis model.
FitVisit(loop) ==
    /\ pc = (IF loop = 1 THEN "loop1" ELSE "loop2")
    /\ session[run.i].kind = "synthesis"
    /\ ~session[run.i].user_flag

FlagsKept(i) ==
    /\ session'[i].is_acceptable = session[i].is_acceptable
    /\ session'[i].user_flag = session[i].user_flag

Rejected(m) == ~m.is_acceptable /\ m.user_flag

\* The visit just made called iterfit with the penalty function first and,
\* if that call raised, exactly once more without it; the model is rejected
\* iff both calls raised and keeps its flags otherwise.
RetryOnce(i) ==
    LET a == run'.last.attempts IN
      /\ Len(a) \in {1, 2}
      /\ a[1].penalty
      /\ Len(a) = 2 <=> a[1].raised
      /\ Len(a) = 2 => ~a[2].penalty
      /\ IF Len(a) = 2 /\ a[2].raised THEN Rejected(session'[i]) ELSE FlagsKept(i)

\* The visit just made called iterfit exactly once, without the penalty
\* function; the model is rejected iff the call raised and keeps its flags
\* otherwise.
SingleAttempt(i) ==
    LET a == run'.last.attempts IN
      /\ Len(a) = 1
      /\ ~a[1].penalty
      /\ IF a[1].raised THEN Rejected(session'[i]) ELSE FlagsKept(i)

\* C14 (as claimed): in every fitting pass, an unflagged synthesis model is
\* first fitted with the penalty function, refitted exactly once without it
\* if that raises, rejected and flagged only when the second call raises
\* too, and keeps its flags when either call returns.
C14_RetryEveryPass ==
    [][(FitVisit(1) \/ FitVisit(2)) => RetryOnce(run.i)]_vars

\* C14 (amended): that holds in the first num_iter_all passes; in the last
\* num_iter_all passes an unflagged synthesis model is fitted exactly once,
\* without the penalty function, and is rejected and flagged iff that call
\* raises.
C14_RetryFirstLoop ==
    [][/\ FitVisit(1) => RetryOnce(run.i)
       /\ FitVisit(2) => SingleAttempt(run.i)]_vars

C14_Witness ==
    /\ run.last.op = "fit"
    /\ run.last.loop = 1
    /\ Len(run.last.attempts) = 2
    /\ ~run.last.attempts[2].raised
    /\ ~session[run.last.i].user_flag

\* The step just taken fitted model i.
Fitted(i) ==
    /\ run'.last.op = "fit"
    /\ run'.last.i = i
    /\ Len(run'.last.attempts) >= 1

\* A step of a fitting loop goes on to the next model of the pass, or from
\* the last model to the first model of what follows.
NextModel ==
    pc \in {"loop1", "loop2"} =>
        /\ pc' # "aborted"
        /\ run'.i = (IF run.i < Len(session) THEN run.i + 1 ELSE 1)

\* The number of steps from the current position to the end of the run:
\* the models left in the two fitting loops and in the detection loop, the
\* width sanity pass and the save.
StepsLeft ==
    LET n == Len(session) IN
      CASE pc = "loop1" -> (2 * run.numiter - run.it) * n - (run.i - 1) + n + 2
        [] pc = "loop2" -> (run.numiter - run.it) * n - (run.i - 1) + n + 2
        [] pc = "detect" -> n - (run.i - 1) + 2
        [] pc = "width" -> 2
        [] pc = "save" -> 1
        [] OTHER -> 0

\* C15: no exception of a fit leaves run_synth_fit: whatever calls of iterfit
\* raise, every pass goes through all the models and fits each unflagged
\* synthesis model it comes to, and every step of the run is one step
\* nearer to the final save, which comes after the detection check and the
\* width sanity pass.
C15_FitFailureNotFatal ==
    /\ [](pc # "aborted")
    /\ [](run.saved <=> StepsLeft = 0)
    /\ [][/\ NextModel
          /\ (FitVisit(1) \/ FitVisit(2)) => Fitted(run.i)
          /\ StepsLeft > 0 => StepsLeft' = StepsLeft - 1
          /\ pc' = "width" => pc = "detect"
          /\ pc' = "save" => pc = "width"]_vars

\* The first model was rejected after its calls of iterfit raised, and the
\* second model was fitted after that.
C15_Witness ==
    /\ pc \in {"loop1", "loop2", "detect"}
    /\ run.last.op = "fit"
    /\ run.last.i = 2
    /\ Len(run.last.attempts) >= 1
    /\ 1 \in run.everraised
    /\ Rejected(session[1])

\* A step leaves the flagged synthesis model k alone.
Untouched(k) ==
    (session[k].kind = "synthesis" /\ session[k].user_flag) =>
        /\ session'[k] = session[k]
        /\ run'.nfit[k] = run.nfit[k]
        /\ k = run.i => (run'.last.prior = 0 /\ Len(run'.last.attempts) = 0)

\* C16: in the fitting passes a synthesis model whose user_flag is true is
\* left as it is, priors and fitted result included: when a pass comes to
\* it, no prior update and no call of iterfit is made, and no step of a
\* fitting pass changes its is_acceptable or user_flag.
C16_FlaggedUntouched ==
    [][(pc \in {"loop1", "loop2"}) => \A k \in 1..Len(session) : Untouched(k)]_vars

\* A pass after the first came to a model that an earlier pass had rejected
\* and flagged after its calls of iterfit raised.
C16_Witness ==
    /\ run.last.op = "fit"
    /\ run.last.pass >= 2
    /\ run.last.attempts = <<>>
    /\ session[run.last.i].kind = "synthesis"
    /\ session[run.last.i].user_flag
    /\ run.last.i \in run.everraised

\* The fitting loops are over and the detection check has not begun.
BeforeDetection == pc = "detect" /\ run.i = 1 /\ run.last.op = "fit"

\* Synthesis model k was not flagged and none of its calls of iterfit raised.
NeverFlaggedNeverRaised(k) ==
    /\ session[k].kind = "synthesis"
    /\ ~session[k].user_flag
    /\ k \notin run.everraised

\* C17 as stated: before the detection check there were num_iter_all passes,
\* and a synthesis model that was never flagged and whose fits never raised
\* was fitted num_iter_all times.
C17_NumIterPasses ==
    BeforeDetection =>
        /\ run.last.pass = run.numiter
        /\ \A k \in 1..Len(session) :
              NeverFlaggedNeverRaised(k) => run.nfit[k] = run.numiter

\* C17 as the code has it: before the detection check there were
\* 2 * num_iter_all passes, num_iter_all of each loop, and a synthesis model
\* that was never flagged and whose fits never raised was fitted
\* 2 * num_iter_all times.
C17_TwiceNumIterPasses ==
    BeforeDetection =>
        /\ run.last.pass = 2 * run.numiter
        /\ run.last.loop = 2
        /\ \A k \in 1..Len(session) :
              NeverFlaggedNeverRaised(k) => run.nfit[k] = 2 * run.numiter

\* The detection check is about to begin with two passes configured and a
\* synthesis model that was fitted in every pass without a raise.
C17_Witness ==
    /\ BeforeDetection
    /\ run.numiter = 2
    /\ \E k \in 1..Len(session) : NeverFlaggedNeverRaised(k) /\ run.nfit[k] = 4

\* The step sets every element of rt_abundances of model i to the abundance
\* aggregated over the session before the step when there is one, and
\* otherwise to solar(element) + MH, plus the scaling offset of the element
\* if scaled.
PriorIs(i, scaled) ==
    \A elem \in DOMAIN session[i].rt :
        session'[i].rt[elem] =
            IF SummaryHas(session, elem) THEN SummaryLogeps(session, elem)
            ELSE (SolarOf(elem) + run.MH) * Scale
                 + (IF scaled THEN ScalingOffset(session, elem, run.MH) ELSE 0)

\* C18 as stated: the prior of an element without aggregated abundance is
\* solar + MH in the first pass and solar + MH + scaling offset in every
\* pass after the first.
C18_ScaledAfterFirstPass ==
    [][(FitVisit(1) \/ FitVisit(2)) => PriorIs(run.i, run'.last.pass > 1)]_vars

\* C18 as the code has it: before each fit of a synthesis model every
\* element of rt_abundances is set to the aggregated abundance when there is
\* one; otherwise to solar + MH in the first num_iter_all passes and to
\* solar + MH + scaling offset in the num_iter_all passes that follow.
C18_ScaledInSecondLoop ==
    [][/\ FitVisit(1) => (run'.last.prior = 1 /\ PriorIs(run.i, FALSE))
       /\ FitVisit(2) => (run'.last.prior = 2 /\ PriorIs(run.i, TRUE))]_vars

\* A pass of the second loop fitted a model after giving Cr, which has no
\* aggregated abundance, the prior of the Cr relation, and Ti a prior that
\* is not solar + MH.
C18_Witness ==
    /\ run.last.op = "fit"
    /\ run.last.loop = 2
    /\ run.last.prior = 2
    /\ "Cr" \in DOMAIN session[run.last.i].rt
    /\ session[run.last.i].rt["Cr"] =
           (SolarOf("Cr") + run.MH) * Scale + (144 + (129 * run.MH) \div 1000) * Scale
    /\ session[run.last.i].rt["Ti"] # (SolarOf("Ti") + run.MH) * Scale

\* The step just made is the detection check of model i: a synthesis model
\* is tested at sigma = 3; if the test fails the model is rejected and
\* flagged and find_upper_limit(sigma=5) is called on it as flagged; if it
\* passes the model keeps its flags and find_upper_limit is not called.
DetectionChecked(i) ==
    LET d == run'.last IN
      /\ d.op = "detect"
      /\ d.i = i
      /\ d.checked <=> session[i].kind = "synthesis"
      /\ d.checked => d.sigma = 3
      /\ (d.checked /\ ~d.detected) =>
            /\ d.ul_called
            /\ d.ul_sigma = 5
            /\ d.flagged = Reject(session[i])
            /\ Rejected(d.flagged)
      /\ (d.checked /\ d.detected) =>
            /\ ~d.ul_called
            /\ FlagsKept(i)
            /\ session'[i] = session[i]

\* C19: the detection check begins when the last pass of the second loop
\* has gone through the last model, and not before; it then goes through
\* the models in order, and every synthesis model is tested at sigma = 3,
\* rejected, flagged and handed to find_upper_limit(sigma=5) if the test
\* fails, and left alone if it passes.
C19_DetectionAfterPasses ==
    [][/\ (pc # "detect" /\ pc' = "detect") =>
             /\ pc = "loop2"
             /\ run.i = Len(session)
             /\ run'.last.pass = 2 * run.numiter
             /\ run'.i = 1
       /\ pc # "detect" => run'.last.op # "detect"
       /\ pc = "detect" => DetectionChecked(run.i)
       /\ (pc = "detect" /\ pc' = "detect") => run'.i = run.i + 1
       /\ (pc = "detect" /\ pc' # "detect") => (pc' = "width" /\ run.i = Len(session))]_vars

\* The second model failed the detection test after the first had been
\* through the check, and was handed to find_upper_limit.
C19_Witness ==
    /\ run.last.op = "detect"
    /\ run.last.i = 2
    /\ run.last.checked
    /\ ~run.last.detected
    /\ run.last.ul_called
    /\ run.last.ul_sigma = 5
    /\ pc = "width"

\* Table t has no row of the model at position k (index is 0-based).
NoRowOf(k, t) == \A j \in 1..Len(t.rows) : t.rows[j].index # k - 1

\* Every line counted in the summary table is a row of a line table.
SummaryFromRows ==
    \A j \in 1..Len(summary_tab.rows) :
        LET r == summary_tab.rows[j]
            det == SelectSpecies(tab.rows, r.species)
            lim == SelectSpecies(tab_ul.rows, r.species)
        IN r.N >= 1 /\ (r.N = Len(det) \/ r.N = Len(lim) \/ r.N = Len(det) - Len(lim))

\* C20: when find_upper_limit raises, the detection check goes on with the
\* next model (or, after the last, with the width pass); the model stays
\* rejected and flagged to the end of the run and beyond; and the line
\* table, the table of upper limits and the summary table made from the
\* saved session have no row of it and count no line of it.
C20_UpperLimitFailure ==
    /\ [](\A k \in run.ulraised :
             /\ pc # "aborted"
             /\ Rejected(session[k])
             /\ NoRowOf(k, tab)
             /\ NoRowOf(k, tab_ul)
             /\ SummaryFromRows)
    /\ [][(pc = "detect" /\ run'.last.ul_raised) =>
             /\ run'.last.i = run.i
             /\ run.i \in run'.ulraised
             /\ IF run.i < Len(session)
                THEN pc' = "detect" /\ run'.i = run.i + 1
                ELSE pc' = "width"]_vars

\* find_upper_limit raised for the second model, the run was saved, and the
\* tables made from the saved session have a row of another model.
C20_Witness ==
    /\ 2 \in run.ulraised
    /\ run.saved
    /\ pc = "limits"
    /\ Len(tab.rows) >= 1
    /\ Len(summary_tab.rows) >= 1

\* The accepted models wider than max_fwhm.
TooWide == {k \in 1..Len(session) :
               session[k].is_acceptable /\ session[k].fwhm > run.max_fwhm}

\* C21: the width sanity pass rejects and flags exactly the accepted models
\* with fwhm > max_fwhm and changes no other model; after it no accepted
\* model has fwhm > max_fwhm, and num_removed is the number of models it
\* rejected.
C21_WidthPass ==
    [][(pc = "width") =>
         /\ \A k \in 1..Len(session) :
               /\ k \in TooWide =>
                     session'[k] = [session[k] EXCEPT !.is_acceptable = FALSE,
                                                      !.user_flag = TRUE]
               /\ k \notin TooWide => session'[k] = session[k]
               /\ session'[k].is_acceptable => session'[k].fwhm <= run.max_fwhm
         /\ Len(session') = Len(session)
         /\ run'.num_removed = Cardinality(TooWide)]_vars

\* The width pass rejected one model that was accepted with fwhm above
\* max_fwhm and left an accepted model of width max_fwhm alone.
C21_Witness ==
    /\ run.last.op = "width"
    /\ run.num_removed = 1
    /\ \E k \in 1..Len(session) :
          session[k].fwhm > run.max_fwhm /\ Rejected(session[k])
    /\ \E k \in 1..Len(session) :
          session[k].fwhm = run.max_fwhm /\ session[k].is_acceptable

\* Synthesis model k was processed by the run: a call of iterfit or of
\* find_upper_limit of this run returned for it, or the run rejected it.
Processed(k) ==
    /\ session[k].kind = "synthesis"
    /\ \/ session[k].has_abund /\ session[k].abund \in {session[k].fitval, session[k].limitval}
       \/ k \in run.ulraised

PassStart == IF run.i = 1 THEN session ELSE run.snap

\* The prior the step gives to each element of rt_abundances of model i is
\* the one computed from the models given: their aggregate where there is
\* one, the solar value with MH (and the scaling offset if scaled) otherwise.
PriorFrom(models, i, scaled) ==
    \A elem \in DOMAIN session[i].rt :
        session'[i].rt[elem] =
            IF SummaryHas(models, elem) THEN SummaryLogeps(models, elem)
            ELSE (SolarOf(elem) + run.MH) * Scale
                 + (IF scaled THEN ScalingOffset(models, elem, run.MH) ELSE 0)

\* C23 as stated: the prior given to a synthesis model in a pass is computed
\* from the models as they were when the pass began, whatever the visits
\* made earlier in the pass did.
C23_PriorFromPassStart ==
    [][/\ FitVisit(1) => PriorFrom(PassStart, run.i, FALSE)
       /\ FitVisit(2) => PriorFrom(PassStart, run.i, TRUE)]_vars

\* C23 as the code has it: summary_dict is recomputed at every visit, so the
\* prior is computed from the models as the visits made so far in the pass
\* left them; where that differs from the aggregate of the models at the
\* beginning of the pass, the prior is the newer value.
C23_PriorFromCurrentModels ==
    [][(FitVisit(1) \/ FitVisit(2)) =>
          /\ PriorFrom(session, run.i, pc = "loop2")
          /\ \A elem \in DOMAIN session[run.i].rt :
                (/\ SummaryHas(session, elem)
                 /\ SummaryHas(PassStart, elem)
                 /\ SummaryLogeps(session, elem) # SummaryLogeps(PassStart, elem))
                => session'[run.i].rt[elem] # SummaryLogeps(PassStart, elem)]_vars

\* The second model was fitted with a prior for Mg that is the aggregate of
\* the first model's fit of the same pass, and not the aggregate there was
\* when the pass began.
C23_Witness ==
    /\ run.last.op = "fit"
    /\ run.last.i = 2
    /\ Len(run.last.attempts) >= 1
    /\ "Mg" \in DOMAIN session[2].rt
    /\ SummaryHas(run.snap, "Mg")
    /\ SummaryHas(session, "Mg")
    /\ session[2].rt["Mg"] = SummaryLogeps(session, "Mg")
    /\ session[2].rt["Mg"] # SummaryLogeps(run.snap, "Mg")

\* The line tables of the saved session have been made.
TablesMade == run.saved /\ pc \in {"lines", "summary", "limits"}

AnchorRaw(elem) ==
    IF ~SummaryHas(session, elem) THEN 0
    ELSE IF IsNaN(SummaryXH(session, elem)) THEN 0
    ELSE SummaryXH(session, elem) - run.MH * Scale

\* v is within [-0.4, 0.4] dex.
InClipRange(v) == -400 * Scale <= v /\ v <= 400 * Scale

\* The offset that the step added to solar + MH in the prior of elem of
\* model i.
OffsetGiven(i, elem) == session'[i].rt[elem] - (SolarOf(elem) + run.MH) * Scale

\* The elements of rt_abundances of model i with no aggregated abundance.
Unmeasured(i) == {elem \in DOMAIN session[i].rt : ~SummaryHas(session, elem)}

\* C27 as stated: in the priors set by update_abundance_table_2 both anchor
\* offsets lie within [-0.4, 0.4]: that of the alpha elements and, net of
\* the [X/Eu] ratio, that of the r-process elements.
C27_BothAnchorsClipped ==
    [][FitVisit(2) =>
          \A elem \in Unmeasured(run.i) :
             /\ elem \in {"O", "Si", "Ca", "Ti"} => InClipRange(OffsetGiven(run.i, elem))
             /\ elem \in DOMAIN XEudict =>
                   InClipRange(OffsetGiven(run.i, elem) - XEudict[elem] * Scale)]_vars

\* C27 as the code has it: the alpha anchor [Mg/M] is clipped to
\* [-0.4, 0.4]; the r-process anchor [Eu/M] enters as it is; either is 0
\* when the element has no aggregate or the value is NaN.
C27_AlphaAnchorClipped ==
    [][FitVisit(2) =>
          \A elem \in Unmeasured(run.i) :
             /\ elem \in {"O", "Si", "Ca", "Ti"} =>
                   /\ InClipRange(OffsetGiven(run.i, elem))
                   /\ InClipRange(AnchorRaw("Mg")) => OffsetGiven(run.i, elem) = AnchorRaw("Mg")
                   /\ AnchorRaw("Mg") > 400 * Scale => OffsetGiven(run.i, elem) = 400 * Scale
                   /\ AnchorRaw("Mg") < -400 * Scale => OffsetGiven(run.i, elem) = -400 * Scale
             /\ elem \in DOMAIN XEudict =>
                   OffsetGiven(run.i, elem) = AnchorRaw("Eu") + XEudict[elem] * Scale]_vars

\* In a pass of the second loop the first model got the Ti prior of a
\* [Mg/M] of 0.5 clipped to 0.4 and the second the Ba prior of a [Eu/M] of
\* 0.5 as it is.
C27_Witness ==
    /\ run.last.op = "fit"
    /\ run.last.loop = 2
    /\ run.last.i = 2
    /\ Len(session) = 2
    /\ session[1].kind = "synthesis"
    /\ session[2].kind = "synthesis"
    /\ session[1].rt["Ti"] = (SolarOf("Ti") + run.MH) * Scale + 400 * Scale
    /\ session[2].rt["Ba"] = (SolarOf("Ba") + run.MH) * Scale + (500 - 830) * Scale

\* The profile fits of the session.
Profiles == {k \in 1..Len(session) : session[k].kind = "profile"}

\* A step of the two fitting loops or of the detection loop leaves every
\* profile fit as it is, and when it comes to one it makes no prior update
\* and calls neither iterfit, check_line_detection nor find_upper_limit.
ProfileSkipped ==
    /\ \A k \in Profiles : session'[k] = session[k]
    /\ (pc \in {"loop1", "loop2"} /\ run.i \in Profiles) =>
          (run'.last.prior = 0 /\ Len(run'.last.attempts) = 0)
    /\ (pc = "detect" /\ run.i \in Profiles) =>
          (~run'.last.checked /\ ~run'.last.ul_called)

\* C28 as stated: from the first fitting pass to the end of run_synth_fit
\* no step fits, tests or searches a profile fit, and every step leaves its
\* is_acceptable and user_flag as they were.
C28_ProfileFlagsKept ==
    [][(pc \in {"loop1", "loop2", "detect", "width", "save"}) =>
          /\ pc \in {"loop1", "loop2", "detect"} => ProfileSkipped
          /\ \A k \in Profiles : FlagsKept(k)]_vars

\* C28 as the code has it: the fitting loops and the detection loop leave
\* a profile fit alone; the width sanity pass rejects and flags a profile
\* fit that is accepted with fwhm > max_fwhm, and leaves the others alone.
C28_ProfileOnlyWidthChecked ==
    [][(pc \in {"loop1", "loop2", "detect", "width", "save"}) =>
          /\ pc \in {"loop1", "loop2", "detect"} => ProfileSkipped
          /\ \A k \in Profiles :
                IF pc = "width" /\ session[k].is_acceptable
                                /\ session[k].fwhm > run.max_fwhm
                THEN Rejected(session'[k])
                ELSE FlagsKept(k)]_vars

\* Of two accepted profile fits that the loops had left alone, the width
\* pass kept the first and rejected the second, which is wider than
\* max_fwhm.
C28_Witness ==
    /\ run.last.op = "width"
    /\ Len(session) = 2
    /\ Profiles = {1, 2}
    /\ session[1].is_acceptable
    /\ ~session[1].user_flag
    /\ Rejected(session[2])
    /\ session[2].fwhm > run.max_fwhm

\* ======================================================================
\* Properties of the exception paths of the table builders
\* ======================================================================
\* In the rows given, a row of a model whose abundance read raises has NaN
\* for the abundance and for the width.
UnreadAreNaN(rows) ==
    \A j \in 1..Len(rows) :
        ~session[rows[j].index + 1].has_abund =>
            (IsNaN(rows[j].logeps) /\ IsNaN(rows[j].fwhm))

\* C25: a line table is built whatever metadata is missing: the build does
\* not raise, and in the row of an accepted line whose abundance read raised
\* the abundance and the width are NaN, in the table of get_quick_lines and
\* in the upper-limit table of get_quick_limits.
C25_MissingMetadataNaN ==
    /\ pc # "lines_raised"
    /\ pc \in {"lines", "summary"} => UnreadAreNaN(tab.rows)
    /\ pc = "limits" => UnreadAreNaN(tab_ul.rows)

====
